---------------------------- MODULE Spec2Model ----------------------------
(***************************************************************************)
(* A model of bluehood's BluetoothScanner (src/bluehood/scanner.py): the   *)
(* scan() orchestration of a BLE discovery followed by a classic inquiry,  *)
(* the BLE failure counter and the two-stage adapter recovery, the vendor  *)
(* resolution of every device found, and the merge of the two result       *)
(* lists.                                                                  *)
(*                                                                         *)
(* Strings the code takes apart (addresses, response bodies) are sequences *)
(* of one-character strings; an Optional value is <<>> (None) or <<v>>.    *)
(***************************************************************************)
EXTENDS Integers, Sequences, FiniteSets, TLC

(***************************************************************************)
(* Bounds of the model.                                                    *)
(***************************************************************************)
\* scan() calls made on one scanner instance
MaxCycles == 5
\* devices the BLE discoveries report and lines the classic inquiries print,
\* over all scans of the instance
MaxReports == 3
\* _get_vendor calls made one after another on one scanner instance
MaxResolves == 2
\* tasks that call _get_vendor_online on one scanner instance at a time, and
\* the calls each of them makes
NumTasks == 2
MaxTaskCalls == 2
\* cycles of scan_continuous in which the same devices are sighted, and the
\* devices and lines reported over them
LoopCycles == 2
LoopReports == 2
\* a run takes MaxCycles scans in which one device or line is reported, or
\* one scan of MaxReports devices and lines; `lookups` vendor lookups find the
\* offline database and the online service working, later ones find them down
Budgets ==
    {[cycles |-> MaxCycles, reports |-> 1, lookups |-> 1],
     [cycles |-> 1, reports |-> MaxReports, lookups |-> 0]}

(***************************************************************************)
(* Program constants.                                                      *)
(***************************************************************************)
ADAPTER_RESET_THRESHOLD == 3
\* the default duration of scan() and scan_ble(), in seconds
SCAN_DURATION == 5
\* the default interval of scan_continuous, in seconds
INTERVAL == 10
\* rssi placeholder of a classic device
CLASSIC_RSSI == -60
\* seconds between two online vendor requests
RATE_LIMIT == 1

None == <<>>
Some(v) == <<v>>

(***************************************************************************)
(* str.upper() on a sequence of characters.                                *)
(***************************************************************************)
LowerAlpha == <<"a","b","c","d","e","f","g","h","i","j","k","l","m",
                "n","o","p","q","r","s","t","u","v","w","x","y","z">>
UpperAlpha == <<"A","B","C","D","E","F","G","H","I","J","K","L","M",
                "N","O","P","Q","R","S","T","U","V","W","X","Y","Z">>

UpperChar(c) ==
    IF \E i \in DOMAIN LowerAlpha : LowerAlpha[i] = c
    THEN UpperAlpha[CHOOSE i \in DOMAIN LowerAlpha : LowerAlpha[i] = c]
    ELSE c

Upper(s) == [i \in DOMAIN s |-> UpperChar(s[i])]

(***************************************************************************)
(* The addresses the radio environment of the model holds.                 *)
(***************************************************************************)
\* "AC:DE:48:00:00:01"
MacA == <<"A","C",":","D","E",":","4","8",":","0","0",":","0","0",":","0","1">>
\* "ac:de:48:00:00:01", the same address in lower case
MacALower == <<"a","c",":","d","e",":","4","8",":","0","0",":","0","0",":","0","1">>
\* "DA:A1:19:00:00:02", locally administered (0xDA & 0x02 # 0)
MacRandom == <<"D","A",":","A","1",":","1","9",":","0","0",":","0","0",":","0","2">>
\* "00:1a:7d:00:00:03"
MacCLower == <<"0","0",":","1","a",":","7","d",":","0","0",":","0","0",":","0","3">>

\* "AC:DE:48:00:00:09", another address of the OUI of MacA
MacA2 == <<"A","C",":","D","E",":","4","8",":","0","0",":","0","0",":","0","9">>
\* "fe:a1:19:00:00:04", locally administered (0xfe & 0x02 # 0), in lower case
MacRandomLower == <<"f","e",":","a","1",":","1","9",":","0","0",":","0","0",":","0","4">>
\* "DAA11900-0000-4000-8000-000000000002", the UUID CoreBluetooth gives in
\* place of an address
MacUuid == <<"D","A","A","1","1","9","0","0","-","0","0","0","0","-",
             "4","0","0","0","-","8","0","0","0","-",
             "0","0","0","0","0","0","0","0","0","0","0","2">>
\* "ZZ:A1:19:00:00:05", whose first field is no hexadecimal number
MacNoHex == <<"Z","Z",":","A","1",":","1","9",":","0","0",":","0","0",":","0","5">>

\* addresses _get_vendor is called with
VendorAddrs ==
    {MacA, MacALower, MacA2, MacRandom, MacRandomLower, MacUuid, MacNoHex}

\* addresses BleakScanner.discover may report
BleAddrs == {MacA, MacALower, MacRandom}
\* addresses hcitool inq may print
ClassicAddrs == {MacALower, MacCLower}


(***************************************************************************)
(* Address predicates.                                                     *)
(***************************************************************************)
HexDigits == <<"0","1","2","3","4","5","6","7","8","9","A","B","C","D","E","F">>

IsHexChar(c) == \E i \in DOMAIN HexDigits : HexDigits[i] = UpperChar(c)

HexDigitValue(c) == (CHOOSE i \in DOMAIN HexDigits : HexDigits[i] = UpperChar(c)) - 1

RECURSIVE HexValue(_)
HexValue(s) ==
    IF s = <<>> THEN 0
    ELSE 16 * HexValue(SubSeq(s, 1, Len(s) - 1)) + HexDigitValue(s[Len(s)])

\* mac.split(":")[0]
FirstField(mac) ==
    LET colons == {i \in DOMAIN mac : mac[i] = ":"}
        stop == IF colons = {} THEN Len(mac) + 1
                ELSE CHOOSE i \in colons : \A j \in colons : i <= j
    IN SubSeq(mac, 1, stop - 1)

\* classifier.is_macos_uuid: the 8-4-4-4-12 form CoreBluetooth gives in place
\* of an address
IsMacosUuid(mac) ==
    /\ Len(mac) = 36
    /\ \A i \in DOMAIN mac :
          IF i \in {9, 14, 19, 24} THEN mac[i] = "-" ELSE IsHexChar(mac[i])

\* a test that never flags an address
NeverRandomized(mac) == FALSE

\* a test of the multicast bit (0x01) in place of the locally administered one
RandomizedByBit0(mac) ==
    IF IsMacosUuid(mac) THEN FALSE
    ELSE \E first \in {FirstField(mac)} :
            IF first = <<>> \/ \E i \in DOMAIN first : ~IsHexChar(first[i])
            THEN FALSE
            ELSE HexValue(first) % 2 = 1

IsRandomizedMac(mac) ==
    IF IsMacosUuid(mac) THEN FALSE
    ELSE \E first \in {FirstField(mac)} :
            IF first = <<>> \/ \E i \in DOMAIN first : ~IsHexChar(first[i])
            THEN FALSE
            ELSE (HexValue(first) \div 2) % 2 = 1

(***************************************************************************)
(* Vendor resolution.                                                      *)
(***************************************************************************)
Whitespace == {" ", "\t", "\n", "\r"}

RECURSIVE LStrip(_)
LStrip(s) ==
    IF s # <<>> /\ s[1] \in Whitespace THEN LStrip(Tail(s)) ELSE s

RECURSIVE RStrip(_)
RStrip(s) ==
    IF s # <<>> /\ s[Len(s)] \in Whitespace
    THEN RStrip(SubSeq(s, 1, Len(s) - 1)) ELSE s

\* str.strip()
Strip(s) == RStrip(LStrip(s))

\* Python truthiness of an Optional[str]
Truthy(v) == v # None /\ v[1] # <<>>

\* the vendor the offline database and the online service know for an OUI
KnownVendor == <<"V">>

\* bodies of an HTTP 200 answer
Bodies == {<<>>, <<" ">>, KnownVendor, <<" ">> \o KnownVendor \o <<" ">>}

Response(status, body) == [kind |-> "response", status |-> status, body |-> body]

\* what one GET to the vendor service can end in
HttpOutcomes ==
    {Response(200, b) : b \in Bodies}
        \cup {Response(s, <<>>) : s \in {404, 429, 500}}
        \cup {[kind |-> k, status |-> 0, body |-> <<>>] : k \in {"timeout", "error"}}

\* _last_api_call is not set; otherwise last_api_age is the time since that
\* call in seconds, kept up to RATE_LIMIT (the code reads only elapsed < 1.0)
Unset == -1

Aged(age) == IF age = Unset THEN Unset ELSE RATE_LIMIT

\* a request that carries the whole address
WholeAddress(mac) == mac

\* mac[:8]
Oui(mac) == SubSeq(mac, 1, IF Len(mac) < 8 THEN Len(mac) ELSE 8)

\* what _get_vendor_online returns for the outcome of its request
OnlineVendor(http) ==
    IF http.kind = "response" /\ http.status = 200
    THEN IF http.body # <<>> THEN Some(Strip(http.body)) ELSE None
    ELSE None

\* a timestamp written whatever the request ended in
LastApiCallAgeAlways(http, age) == 0

\* the age of _last_api_call after a request sent at age `age`: the
\* timestamp is written inside `async with session.get(...) as response`,
\* which is entered only when a response has come
LastApiCallAge(http, age) == IF http.kind = "response" THEN 0 ELSE age

\* _get_vendor_online: the vendor, the age of _last_api_call afterwards, the
\* request sent and whether the throttle slept
GetVendorOnline(mac, age, http) ==
    LET slept == age # Unset /\ age < RATE_LIMIT
        atRequest == IF slept THEN RATE_LIMIT ELSE age
    IN [vendor |-> OnlineVendor(http),
        age |-> LastApiCallAge(http, atRequest),
        request |-> Oui(mac),
        slept |-> slept]

\* what MacLookup().update_vendors() can end in
RefreshOutcomes == {"ok", "failed"}

\* an _ensure_vendor_db that sets the flag only after a refresh that worked
EnsureVendorDbRetrying(updated, has, outcome) ==
    IF updated \/ ~has THEN updated ELSE outcome = "ok"

\* _ensure_vendor_db: _vendors_updated afterwards, set when the refresh worked
\* and when it failed ("Don't retry")
EnsureVendorDb(updated, has, outcome) ==
    IF updated \/ ~has THEN updated ELSE TRUE

\* the outcomes of the calls one _get_vendor makes: the refresh of the
\* database, creating AsyncMacLookup, its lookup, the online request
VendorEnvs ==
    [refresh : RefreshOutcomes, ctor : {"ok", "error"}, db : {"hit", "miss"},
     http : HttpOutcomes]

\* a cache keyed by the OUI of the address
CacheKeyByOui(mac) == Oui(mac)

\* the key of an address in _vendor_cache: the string _get_vendor was given
CacheKey(mac) == mac

\* the first three tests of _get_vendor: the address is a UUID, is randomized
\* or has a vendor in the cache
AnswersAtOnce(mac, cache) ==
    \/ IsMacosUuid(mac)
    \/ IsRandomizedMac(mac)
    \/ (CacheKey(mac) \in DOMAIN cache /\ cache[CacheKey(mac)] # None)

\* a _get_vendor that asks the online service whatever the database found
VendorCallsOnlineToo(mac, st, has, env) ==
    IF AnswersAtOnce(mac, st.cache)
    THEN [refresh |-> FALSE, create |-> FALSE, lookup |-> FALSE,
          online |-> FALSE]
    ELSE LET create == has /\ ~st.lookup
             lookup == has /\ (IF create THEN env.ctor = "ok" ELSE st.lookup)
         IN [refresh |-> create /\ ~st.updated, create |-> create,
             lookup |-> lookup, online |-> TRUE]

\* the calls one _get_vendor makes: whether it starts the refresh of the
\* database, creates the AsyncMacLookup, looks the address up in it, sends the
\* online request
VendorCalls(mac, st, has, env) ==
    IF AnswersAtOnce(mac, st.cache)
    THEN [refresh |-> FALSE, create |-> FALSE, lookup |-> FALSE,
          online |-> FALSE]
    ELSE LET create == has /\ ~st.lookup
             lookup == has /\ (IF create THEN env.ctor = "ok" ELSE st.lookup)
         IN [refresh |-> create /\ ~st.updated, create |-> create,
             lookup |-> lookup, online |-> ~(lookup /\ env.db = "hit")]

NoResponse == [kind |-> "error", status |-> 0, body |-> <<>>]

QuietEnv ==
    [refresh |-> "ok", ctor |-> "ok", db |-> "miss", http |-> NoResponse]

\* the outcomes of the calls _get_vendor makes for mac: a call it does not
\* make has no outcome to choose, and with the services down (~up) a lookup
\* misses and a request fails
VendorEnvsFor(mac, st, has, up) ==
    IF AnswersAtOnce(mac, st.cache) THEN {QuietEnv}
    ELSE {env \in VendorEnvs :
            /\ (has /\ ~st.lookup /\ ~st.updated) \/ env.refresh = "ok"
            /\ (has /\ ~st.lookup) \/ env.ctor = "ok"
            /\ (up /\ has /\ (st.lookup \/ env.ctor = "ok")) \/ env.db = "miss"
            /\ (up /\ ~(has /\ (st.lookup \/ env.ctor = "ok") /\ env.db = "hit"))
                  \/ env.http = NoResponse}

CachePut(cache, mac, v) ==
    [m \in DOMAIN cache \cup {mac} |-> IF m = mac THEN v ELSE cache[m]]

\* a cache that also keeps the lookups that found nothing
CacheAlways(cache, mac, vendor) == CachePut(cache, mac, vendor)

\* if vendor: self._vendor_cache[mac] = vendor
CacheAfter(cache, mac, vendor) ==
    IF Truthy(vendor) THEN CachePut(cache, mac, vendor) ELSE cache

\* _get_vendor on the scanner state st = [cache, lookup, updated, age]
GetVendor(mac, st, has, env) ==
    LET same == [vendor |-> None, cache |-> st.cache, lookup |-> st.lookup,
                 updated |-> st.updated, age |-> st.age]
    IN
    IF IsMacosUuid(mac) THEN same
    ELSE IF IsRandomizedMac(mac) THEN same
    ELSE IF CacheKey(mac) \in DOMAIN st.cache /\ st.cache[CacheKey(mac)] # None
    THEN [same EXCEPT !.vendor = st.cache[CacheKey(mac)]]
    ELSE
      LET create == has /\ ~st.lookup
          updated == IF create THEN EnsureVendorDb(st.updated, has, env.refresh)
                     ELSE st.updated
          lookup == IF create THEN env.ctor = "ok" ELSE st.lookup
          local == IF has /\ lookup /\ env.db = "hit" THEN Some(KnownVendor) ELSE None
          online == GetVendorOnline(mac, st.age, env.http)
          vendor == IF local = None THEN online.vendor ELSE local
      IN [vendor |-> vendor,
          cache |-> CacheAfter(st.cache, CacheKey(mac), vendor),
          lookup |-> lookup,
          updated |-> updated,
          age |-> IF local = None THEN online.age ELSE st.age]

(***************************************************************************)
(* Devices.                                                                *)
(***************************************************************************)
ScannedDevice(mac, name, rssi, vendor, service_uuids, bt_type, device_class) ==
    [mac |-> mac, name |-> name, rssi |-> rssi, vendor |-> vendor,
     service_uuids |-> service_uuids, bt_type |-> bt_type,
     device_class |-> device_class]

\* what BleakScanner.discover reports for an address: the BLEDevice's name
\* and the AdvertisementData
Advert(a) ==
    IF a = MacA
    THEN [address |-> a, name |-> None, local_name |-> Some(<<"t">>),
          rssi |-> -40, service_uuids |-> <<"180f">>]
    ELSE IF a = MacALower
    THEN [address |-> a, name |-> Some(<<"p">>), local_name |-> Some(<<"q">>),
          rssi |-> -70, service_uuids |-> <<>>]
    ELSE [address |-> a, name |-> Some(<<>>), local_name |-> None,
          rssi |-> -90, service_uuids |-> <<>>]

\* a or b on two Optional[str]
PyOr(a, b) == IF Truthy(a) THEN a ELSE b

\* sequences of at most n addresses of S, no address twice, in either case
\* (the values of the dict discover returns, keyed by address)
DistinctSeqs(S, n) ==
    UNION {{q \in [1..k -> S] :
              \A i, j \in 1..k : i # j => Upper(q[i]) # Upper(q[j])} : k \in 0..n}

SeqsUpTo(S, n) == UNION {[1..k -> S] : k \in 0..n}

\* a deadline one second late
LateDeadline(d) == d + 11

\* the deadline around the discovery call: wait_for(..., timeout=duration + 10)
HardDeadline(d) == d + 10

\* the duration scan() is called with
Durations == {SCAN_DURATION}

\* what one BleakScanner.discover call does: it never completes, or at time
\* `at` it raises or returns the (device, advertisement) pairs of `found`
DiscoveryBehaviours(d, n) ==
    {[completes |-> FALSE, at |-> 0, raises |-> FALSE, found |-> <<>>]}
      \cup {[completes |-> TRUE, at |-> t, raises |-> FALSE, found |-> f] :
              t \in {d, HardDeadline(d), HardDeadline(d) + 1},
              f \in DistinctSeqs(BleAddrs, n)}
      \cup {[completes |-> TRUE, at |-> t, raises |-> TRUE, found |-> <<>>] :
              t \in {0, HardDeadline(d) + 1}}

NoDiscovery == [completes |-> FALSE, at |-> 0, raises |-> FALSE, found |-> <<>>]

(***************************************************************************)
(* parse_device_class: the major and minor category of a class of device. *)
(***************************************************************************)
BT_CLASS_MAJOR ==
    <<"computer", "phone", "network", "audio", "peripheral", "imaging",
      "wearable", "toy", "health">>

BT_CLASS_MINOR_AUDIO ==
    (1 :> "headset") @@ (2 :> "handsfree") @@ (4 :> "microphone")
        @@ (5 :> "speaker") @@ (6 :> "headphones") @@ (7 :> "portable_audio")
        @@ (8 :> "car_audio")

BT_CLASS_MINOR_PHONE ==
    (1 :> "cellular") @@ (2 :> "cordless") @@ (3 :> "smartphone")

\* dict.get(key, default); dict.get(key) gives None
DictGet(dict, key, default) == IF key \in DOMAIN dict THEN dict[key] ELSE default

DictGetOptional(dict, key) == IF key \in DOMAIN dict THEN Some(dict[key]) ELSE None

\* a mask one bit too wide: (device_class >> 8) & 0x3F
MajorBitsWide(device_class) == (device_class \div 256) % 64

\* (device_class >> 8) & 0x1F
MajorBits(device_class) == (device_class \div 256) % 32

\* a shift one bit too far: (device_class >> 3) & 0x3F
MinorBitsFromBit3(device_class) == (device_class \div 8) % 64

\* (device_class >> 2) & 0x3F
MinorBits(device_class) == (device_class \div 4) % 64

\* parse_device_class of an Optional[int]: (major_type, minor_type)
parse_device_class(device_class) ==
    IF device_class = None THEN [major |-> "unknown", minor |-> None]
    ELSE [major |-> DictGet(BT_CLASS_MAJOR, MajorBits(device_class[1]), "unknown"),
          minor |-> IF MajorBits(device_class[1]) = 4
                    THEN DictGetOptional(BT_CLASS_MINOR_AUDIO,
                                         MinorBits(device_class[1]))
                    ELSE IF MajorBits(device_class[1]) = 2
                    THEN DictGetOptional(BT_CLASS_MINOR_PHONE,
                                         MinorBits(device_class[1]))
                    ELSE None]

\* the class values parsed: every major and minor field, under service bits
\* 13-23 all clear, those of 0x200404 and 0x240404, and all set, with the
\* format bits 0-1 clear or set; and the absent class of a BLE device
ServiceFields == {0, 256, 288, 2047}
FormatFields == {0, 3}
DeviceClasses ==
    {None} \cup
    {Some(service * 8192 + major * 256 + minor * 4 + format) :
        service \in ServiceFields, major \in 0..31, minor \in 0..63,
        format \in FormatFields}

(***************************************************************************)
(* The output of hcitool inq, line by line.                                *)
(***************************************************************************)
\* class-of-device values as the inquiry prints them (0x240404, 0x5a020c)
ClassValues == {<<"2","4","0","4","0","4">>, <<"5","a","0","2","0","c">>}

InquiringLine == [kind |-> "inquiring", mac |-> <<>>, class |-> <<>>]
OtherLine == [kind |-> "other", mac |-> <<>>, class |-> <<>>]
DeviceLine(mac, class) == [kind |-> "device", mac |-> mac, class |-> class]

OutputLines ==
    {InquiringLine, OtherLine,
     DeviceLine(MacALower, <<"2","4","0","4","0","4">>),
     DeviceLine(MacCLower, <<"5","a","0","2","0","c">>)}

\* output.strip().split("\n")
InquiryOutputs(n) == SeqsUpTo(OutputLines, n)

\* not line.strip() or line.startswith("Inquiring")
SkippedLine(line) == line.kind = "inquiring"

\* re.search(r'([0-9A-Fa-f:]{17})\s+clock offset:.*class:\s*0x([0-9A-Fa-f]+)', line)
MatchesDevice(line) == line.kind = "device"

\* names hcitool name prints (stripped); <<>> is an empty output
ClassicNames == {<<>>, <<"n">>}

\* how a call of hcitool name ends: it exits within 5 seconds with its
\* output, or wait_for gives up on it
NameResults ==
    {[how |-> "exited", out |-> o] : o \in ClassicNames}
        \cup {[how |-> "timeout", out |-> <<>>]}

(***************************************************************************)
(* The merge of scan().                                                    *)
(***************************************************************************)
\* the BLE addresses kept as they are, not uppercased
SeenMacsAsGiven(ble) == {ble[i].mac : i \in DOMAIN ble}

SeenMacs(ble) == {Upper(ble[i].mac) : i \in DOMAIN ble}

\* the classic devices put before what was merged so far
RECURSIVE PrependUnseen(_, _, _)
PrependUnseen(devs, classic, seen) ==
    IF classic = <<>> THEN devs
    ELSE PrependUnseen(IF Upper(Head(classic).mac) \notin seen
                       THEN <<Head(classic)>> \o devs ELSE devs,
                       Tail(classic), seen)

RECURSIVE AppendUnseen(_, _, _)
AppendUnseen(devs, classic, seen) ==
    IF classic = <<>> THEN devs
    ELSE AppendUnseen(IF Upper(Head(classic).mac) \notin seen
                      THEN Append(devs, Head(classic)) ELSE devs,
                      Tail(classic), seen)

\* a scan() whose classic failure loses the BLE devices with it
MergeUnlessClassicEmpty(ble, classic) ==
    IF classic = <<>> THEN <<>> ELSE AppendUnseen(ble, classic, SeenMacs(ble))

Merge(ble, classic) == AppendUnseen(ble, classic, SeenMacs(ble))

(***************************************************************************)
(* State.                                                                  *)
(***************************************************************************)
VARIABLES
    \* fields of the BluetoothScanner
    consecutive_ble_failures, vendor_cache, mac_lookup, vendors_updated,
    last_api_age,
    \* HAS_MAC_LOOKUP: whether mac_vendor_lookup could be imported
    has_mac_lookup,
    \* scan(): its position, its argument and locals, and what it returned
    scan_pc, duration, ble_devices, classic_devices, result,
    \* scan_ble(): its position, the discovery call it awaits, the time waited
    \* for it, the pairs still to process and the local list `devices`
    ble_pc, discovery, discovery_task, elapsed, discovered, devices,
    \* scan_classic(): its position, the lines still to parse and its `devices`
    classic_pc, lines, cdevices,
    \* history of the current scan_classic call: the name and vendor lookups
    \* it has made, in order
    classic_calls,
    \* history of the current scan() call: the counter at entry of scan_ble,
    \* the recovery commands, how each transport ended
    entry_failures, soft_clear, hard_reset, ble_outcome, classic_outcome,
    \* the recovery commands started in the current scan_ble call, in order,
    \* and how the recovery of the scan_ble call before it ended
    commands, prev_recovery,
    \* how the recovery commands of the current scan_ble call ended, in order,
    \* kept until its discovery starts
    recovery_ends,
    \* history of the instance: scan() calls returned, failed scan_ble calls
    \* since the last successful one, devices and lines reported
    cycles, fail_streak, reports, lookups,
    \* the bounds of the run
    budget,
    \* history of the _get_vendor calls made one after another (VendorSpec):
    \* their number, the last call, the time since the last online request was
    \* sent (as last_api_age) and the request last sent for each address
    resolves, resolve_call, since_request, requests,
    \* the tasks running _get_vendor_online side by side (ThrottleSpec): for
    \* each its position, its timer, its calls and what the last one sent
    tasks,
    \* the refresh of the offline vendor database (_ensure_vendor_db): whether
    \* a _get_vendor call is waiting for it, and how many times it was started
    refresh, refreshes,
    \* history of the current scan() call: the subprocesses that were still
    \* running when the wait on them ended
    left_running,
    \* scan_continuous(): its position and the devices of the current cycle
    \* it has passed to the callback; history: what the cycle before merged
    \* and delivered and whether the loop slept after it, and the position at
    \* which the loop was cancelled
    loop_pc, delivered, prev_cycle, cancelled_at,
    \* the last parse_device_class call: its argument and what it returned
    parsed

vendorVars == <<vendor_cache, mac_lookup, vendors_updated, last_api_age>>
scannerVars == <<consecutive_ble_failures, vendorVars>>
resolveVars == <<resolves, resolve_call, since_request, requests, tasks>>
\* what a scan() leaves as it is
runVars == <<has_mac_lookup, budget, resolveVars, parsed>>
scanVars == <<scan_pc, duration, result>>
bleVars == <<discovery, discovery_task, elapsed, discovered, devices>>
classicVars ==
    <<classic_pc, lines, cdevices, classic_devices, classic_outcome, classic_calls>>
recoveryVars ==
    <<entry_failures, soft_clear, hard_reset, commands, prev_recovery,
      recovery_ends>>
bleResultVars == <<consecutive_ble_failures, ble_outcome, fail_streak, ble_devices>>
refreshVars == <<refresh, refreshes>>
loopVars == <<loop_pc, delivered, prev_cycle, cancelled_at>>

vars == <<consecutive_ble_failures, vendor_cache, mac_lookup, vendors_updated,
          last_api_age, has_mac_lookup, scan_pc, duration, ble_devices,
          classic_devices, result, ble_pc, discovery, discovery_task, elapsed,
          discovered, devices, classic_pc, lines, cdevices, entry_failures,
          soft_clear, hard_reset, ble_outcome, classic_outcome, cycles,
          fail_streak, reports, lookups, budget, commands, prev_recovery,
          resolves, resolve_call, since_request, requests, tasks, refresh,
          refreshes, left_running, loop_pc, delivered, prev_cycle,
          cancelled_at, classic_calls, parsed, recovery_ends>>

\* no parse_device_class call made
NoParse == [called |-> FALSE, arg |-> None, major |-> "", minor |-> None]

\* the calls of one _get_vendor, none made
NoCalls ==
    [refresh |-> FALSE, create |-> FALSE, lookup |-> FALSE, online |-> FALSE]

NoCall ==
    [mac |-> <<>>, env |-> QuietEnv, calls |-> NoCalls, vendor |-> None,
     randomized |-> FALSE, slept |-> FALSE, gap |-> Unset,
     before |-> [cache |-> << >>, lookup |-> FALSE, updated |-> FALSE,
                 age |-> Unset],
     after |-> [cache |-> << >>, lookup |-> FALSE, updated |-> FALSE,
                age |-> Unset]]

Tasks == 1..NumTasks

\* a task that has not called _get_vendor_online
IdleTask ==
    [pc |-> "idle", timer |-> 0, calls |-> 0, request |-> <<>>, gap |-> Unset,
     slept |-> FALSE, vendor |-> None]

\* no cycle of scan_continuous before this one
NoCycle == [merged |-> <<>>, delivered |-> <<>>, slept |-> FALSE]

\* BluetoothScanner.__init__, before any scan
Constructed ==
    /\ parsed = NoParse
    /\ recovery_ends = <<>>
    /\ consecutive_ble_failures = 0
    /\ vendor_cache = [m \in {} |-> None]
    /\ mac_lookup = FALSE
    /\ vendors_updated = FALSE
    /\ last_api_age = Unset
    /\ has_mac_lookup \in BOOLEAN
    /\ scan_pc = "idle"
    /\ duration = 0
    /\ ble_devices = <<>>
    /\ classic_devices = <<>>
    /\ result = <<>>
    /\ ble_pc = "none"
    /\ discovery = NoDiscovery
    /\ discovery_task = "none"
    /\ elapsed = 0
    /\ discovered = <<>>
    /\ devices = <<>>
    /\ classic_pc = "none"
    /\ lines = <<>>
    /\ cdevices = <<>>
    /\ classic_calls = <<>>
    /\ entry_failures = 0
    /\ soft_clear = "none"
    /\ hard_reset = "none"
    /\ commands = <<>>
    /\ prev_recovery = "none"
    /\ ble_outcome = "none"
    /\ classic_outcome = "none"
    /\ cycles = 0
    /\ fail_streak = 0
    /\ reports = 0
    /\ lookups = 0
    /\ resolves = 0
    /\ resolve_call = NoCall
    /\ since_request = Unset
    /\ requests = << >>
    /\ tasks = [t \in Tasks |-> IdleTask]
    /\ refresh = "idle"
    /\ refreshes = 0
    /\ left_running = {}
    /\ delivered = <<>>
    /\ prev_cycle = NoCycle
    /\ cancelled_at = "none"

\* a scanner whose scan() is called directly
Init ==
    /\ Constructed
    /\ budget \in Budgets
    /\ loop_pc = "none"

(***************************************************************************)
(* scan_ble.                                                               *)
(***************************************************************************)
\* a threshold test that is off by one
NeedsRecoveryLate(failures) == failures > ADAPTER_RESET_THRESHOLD

\* a recovery that is tried once, when the threshold is reached, and given up
NeedsRecoveryOnce(failures) == failures = ADAPTER_RESET_THRESHOLD

\* the test of scan_ble and _recover_ble on the counter
NeedsRecovery(failures) == failures >= ADAPTER_RESET_THRESHOLD

\* a failure counted twice
CounterAfterFailureTwice(failures) == failures + 2

CounterAfterFailure(failures) == failures + 1

\* a success that leaves the counter as it is
CounterKept(failures) == failures

CounterAfterSuccess(failures) == 0

\* what _recover_ble does after _try_stop_discovery returned `ok`: it sleeps
\* and returns to the discovery, or goes on to _reset_adapter
\* a _recover_ble that resets the adapter whatever the soft clear returned
AlwaysReset(ok) == "reset_adapter"

AfterSoftClear(ok) == IF ok THEN "discover" ELSE "reset_adapter"

\* how a recovery command can end: the tool is missing or cannot be started,
\* it does not exit within the timeout, or it exits with status 0 or another
CommandEnds == {"missing", "spawn_error", "timeout", "exit0", "exit_nonzero"}

\* a soft clear that looks at the exit status
StopDiscoveryOkOnExit0(out) == out = "exit0"

\* _try_stop_discovery returns True when communicate() returned in time
StopDiscoveryOk(out) == out \in {"exit0", "exit_nonzero"}

\* _reset_adapter returns True when proc.returncode == 0
ResetOk(out) == out = "exit0"

\* a scan_ble that gives up when the reset failed
AfterResetGivesUp(ok) == IF ok THEN "discover" ELSE "done"

\* where scan_ble goes on after _reset_adapter returned `ok`: _recover_ble
\* ignores what it returned, and the discovery follows
AfterReset(ok) == "discover"

\* a recovery that clears the counter
CounterCleared(failures) == 0

\* the counter after _try_stop_discovery, _reset_adapter and _recover_ble:
\* none of them assigns it
CounterAfterRecovery(failures) == failures

\* how the recovery of a scan_ble call ended
RecoveryOutcome(soft, hard) ==
    IF soft = "none" THEN "none"
    ELSE IF soft = "ok" THEN "soft_ok"
    ELSE IF hard = "ok" THEN "reset_ok" ELSE "reset_failed"

\* a loop that gives up after a cycle in which the BLE scan failed
NextCycleUnlessFailed == loop_pc \in {"start", "wake"} /\ fail_streak = 0

\* a loop that starts its next scan without waiting for the sleep
NextCycleStartsEarly == loop_pc \in {"start", "sleep", "wake"}

\* scan_continuous is at `devices = await self.scan()`: it has just been
\* called, or the sleep of the cycle before has ended
NextCycleMayStart == loop_pc \in {"start", "wake"}

\* the subprocesses left running once the wait on `command` has ended: the
\* except clause of a timeout returns and leaves the process as it is
LeftRunning(how, command) ==
    IF how = "timeout" THEN left_running \cup {command} ELSE left_running

\* scan() is called, directly or by scan_continuous: it calls scan_ble, which
\* starts with _recover_ble (and so with the soft clear) when the counter has
\* reached the threshold
Scan(d) ==
    /\ scan_pc = "idle"
    /\ cycles < budget.cycles
    /\ loop_pc = "none" \/ NextCycleMayStart
    /\ IF loop_pc = "none"
       THEN UNCHANGED loopVars
       ELSE /\ loop_pc' = "scan"
            /\ delivered' = <<>>
            /\ prev_cycle' = [merged |-> result, delivered |-> delivered,
                              slept |-> loop_pc = "wake"]
            /\ UNCHANGED cancelled_at
    /\ scan_pc' = "running"
    /\ duration' = d
    /\ ble_devices' = <<>>
    /\ classic_devices' = <<>>
    /\ result' = <<>>
    /\ ble_pc' = IF NeedsRecovery(consecutive_ble_failures)
                 THEN "stop_discovery" ELSE "discover"
    /\ soft_clear' = IF NeedsRecovery(consecutive_ble_failures)
                     THEN "running" ELSE "none"
    /\ hard_reset' = "none"
    /\ commands' = IF NeedsRecovery(consecutive_ble_failures)
                   THEN <<"scan_off">> ELSE <<>>
    /\ prev_recovery' = IF ble_outcome = "none" THEN prev_recovery
                        ELSE RecoveryOutcome(soft_clear, hard_reset)
    /\ entry_failures' = consecutive_ble_failures
    /\ recovery_ends' = <<>>
    /\ discovery' = NoDiscovery
    /\ discovery_task' = "none"
    /\ elapsed' = 0
    /\ discovered' = <<>>
    /\ devices' = <<>>
    /\ classic_pc' = "none"
    /\ lines' = <<>>
    /\ cdevices' = <<>>
    /\ classic_calls' = <<>>
    /\ ble_outcome' = "none"
    /\ classic_outcome' = "none"
    /\ left_running' = {}
    /\ UNCHANGED <<scannerVars, runVars, cycles, fail_streak, reports, lookups,
                   refreshVars>>

\* _try_stop_discovery ends: bluetoothctl scan off exited within 5 seconds
\* (whatever its status), or it timed out or could not be started; after a
\* success _recover_ble sleeps 1 second and returns, otherwise it goes on to
\* _reset_adapter
TryStopDiscovery(out) ==
    /\ ble_pc = "stop_discovery"
    /\ soft_clear' = IF StopDiscoveryOk(out) THEN "ok" ELSE "failed"
    /\ ble_pc' = AfterSoftClear(StopDiscoveryOk(out))
    /\ IF AfterSoftClear(StopDiscoveryOk(out)) = "reset_adapter"
       THEN /\ hard_reset' = "running"
            /\ commands' = Append(commands, "reset")
       ELSE UNCHANGED <<hard_reset, commands>>
    /\ last_api_age' = IF StopDiscoveryOk(out) THEN Aged(last_api_age)
                       ELSE last_api_age
    /\ consecutive_ble_failures' = CounterAfterRecovery(consecutive_ble_failures)
    /\ recovery_ends' = Append(recovery_ends, out)
    /\ left_running' = LeftRunning(out, "bluetoothctl scan off")
    /\ UNCHANGED <<vendor_cache, mac_lookup, vendors_updated, runVars, scanVars,
                   bleVars, classicVars, ble_outcome, fail_streak, ble_devices,
                   entry_failures, prev_recovery, cycles, reports, lookups,
                   refreshVars, loopVars>>

\* _reset_adapter ends: hciconfig reset exited with status 0 (then 2 seconds
\* of sleep), exited with another status, timed out or could not be started
ResetAdapter(out) ==
    /\ ble_pc = "reset_adapter"
    /\ hard_reset' = IF ResetOk(out) THEN "ok" ELSE "failed"
    /\ last_api_age' = IF ResetOk(out) THEN Aged(last_api_age) ELSE last_api_age
    /\ ble_pc' = AfterReset(ResetOk(out))
    /\ consecutive_ble_failures' = CounterAfterRecovery(consecutive_ble_failures)
    /\ recovery_ends' = Append(recovery_ends, out)
    /\ left_running' = LeftRunning(out, "hciconfig reset")
    /\ UNCHANGED <<vendor_cache, mac_lookup, vendors_updated, runVars, scanVars,
                   bleVars, classicVars, ble_outcome, fail_streak, ble_devices,
                   entry_failures, soft_clear, commands, prev_recovery, cycles,
                   reports, lookups, refreshVars, loopVars>>

\* BleakScanner.discover is called under wait_for
Discover ==
    /\ ble_pc = "discover"
    /\ ble_pc' = "wait"
    /\ \E b \in DiscoveryBehaviours(duration, budget.reports - reports) :
          /\ discovery' = b
          /\ reports' = reports + Len(b.found)
    /\ discovery_task' = "running"
    /\ elapsed' = 0
    /\ recovery_ends' = <<>>
    /\ UNCHANGED <<scannerVars, runVars, scanVars, discovered, devices,
                   classicVars, entry_failures, soft_clear, hard_reset,
                   commands, prev_recovery, ble_outcome, fail_streak,
                   ble_devices, cycles, lookups, refreshVars, left_running,
                   loopVars>>

\* the time at which the wait for the discovery ends
WaitEnd ==
    IF discovery.completes /\ discovery.at <= HardDeadline(duration)
    THEN discovery.at ELSE HardDeadline(duration)

\* time passes while scan_ble waits for the discovery
Wait ==
    /\ ble_pc = "wait"
    /\ elapsed < WaitEnd
    /\ elapsed' = WaitEnd
    /\ last_api_age' = Aged(last_api_age)
    /\ UNCHANGED <<vendor_cache, mac_lookup, vendors_updated, runVars, scanVars,
                   ble_pc, discovery, discovery_task, discovered, devices,
                   classicVars, recoveryVars, bleResultVars, cycles, reports,
                   lookups, refreshVars, left_running, loopVars>>

\* scan_ble returns `devs` after a failure: one of its two except clauses
BleFails(how, devs) ==
    /\ consecutive_ble_failures' = CounterAfterFailure(consecutive_ble_failures)
    /\ ble_outcome' = how
    /\ fail_streak' = fail_streak + 1
    /\ ble_pc' = "done"
    /\ ble_devices' = devs

\* the discovery ends before wait_for gives up: it raises, or returns the
\* pairs the loop then goes through
DiscoverEnds ==
    /\ ble_pc = "wait"
    /\ discovery.completes
    /\ elapsed = discovery.at
    /\ IF discovery.raises
       THEN /\ discovery_task' = "raised"
            /\ BleFails("exception", devices)
            /\ UNCHANGED discovered
       ELSE /\ discovery_task' = "returned"
            /\ discovered' = [i \in DOMAIN discovery.found |->
                                 Advert(discovery.found[i])]
            /\ ble_pc' = "process"
            /\ UNCHANGED bleResultVars
    /\ UNCHANGED <<vendorVars, runVars, scanVars, discovery, elapsed, devices,
                   classicVars, recoveryVars, cycles, reports, lookups,
                   refreshVars, left_running, loopVars>>

\* duration + 10 seconds have passed: wait_for cancels the discovery, waits
\* for the cancellation and raises TimeoutError
DeadlineExpires ==
    /\ ble_pc = "wait"
    /\ discovery_task = "running"
    /\ elapsed = HardDeadline(duration)
    /\ discovery_task' = "cancelled"
    /\ BleFails("timeout", devices)
    /\ UNCHANGED <<vendorVars, runVars, scanVars, discovery, elapsed,
                   discovered, devices, classicVars, recoveryVars, cycles,
                   reports, lookups, refreshVars, left_running, loopVars>>

VendorState ==
    [cache |-> vendor_cache, lookup |-> mac_lookup, updated |-> vendors_updated,
     age |-> last_api_age]

\* whether the vendor services are up for the next lookup
ServicesUp == lookups < budget.lookups

\* the outcomes the calls of the next _get_vendor(mac) can have
VendorEnvsNow(mac) ==
    VendorEnvsFor(mac, VendorState, has_mac_lookup, ServicesUp)

\* _get_vendor(mac) has been awaited and returned v: the fields it leaves
ResolvedVendor(v, calls) ==
    /\ vendor_cache' = v.cache
    /\ mac_lookup' = v.lookup
    /\ vendors_updated' = v.updated
    /\ last_api_age' = v.age
    /\ lookups' = IF (calls.lookup \/ calls.online) /\ ServicesUp
                  THEN lookups + 1 ELSE lookups

\* the address whose vendor the loop of scan_ble or scan_classic resolves in
\* its next iteration, if it has one
ResolvingNext ==
    IF ble_pc = "process" /\ discovered # <<>>
    THEN Some(Head(discovered).address)
    ELSE IF /\ classic_pc = "parse"
            /\ lines # <<>>
            /\ ~SkippedLine(Head(lines))
            /\ MatchesDevice(Head(lines))
    THEN Some(Upper(Head(lines).mac))
    ELSE None

\* the _get_vendor of the next iteration finds no AsyncMacLookup and no
\* refresh done: it starts one
RefreshNeeded ==
    /\ has_mac_lookup
    /\ ~mac_lookup
    /\ ~vendors_updated
    /\ \E next \in {ResolvingNext} :
          /\ next # None
          /\ \E mac \in {next[1]}, st \in {VendorState} :
                VendorCalls(mac, st, has_mac_lookup, QuietEnv).refresh

\* _get_vendor awaits _ensure_vendor_db, which hands update_vendors() to a
\* thread and awaits it
RefreshStarts ==
    /\ refresh = "idle"
    /\ RefreshNeeded
    /\ refresh' = "running"
    /\ refreshes' = refreshes + 1
    /\ UNCHANGED <<scannerVars, runVars, scanVars, ble_pc, bleVars, classicVars,
                   recoveryVars, ble_outcome, fail_streak, ble_devices, cycles,
                   reports, lookups, left_running, loopVars>>

\* update_vendors() returns or raises in its thread: _ensure_vendor_db sets
\* the flag and returns to _get_vendor
RefreshEnds(outcome) ==
    /\ refresh = "running"
    /\ refresh' = "done"
    /\ vendors_updated' =
          EnsureVendorDb(vendors_updated, has_mac_lookup, outcome)
    /\ UNCHANGED <<consecutive_ble_failures, vendor_cache, mac_lookup,
                   last_api_age, runVars, scanVars, ble_pc, bleVars,
                   classicVars, recoveryVars, ble_outcome, fail_streak,
                   ble_devices, cycles, reports, lookups, refreshes,
                   left_running, loopVars>>

\* the ScannedDevice scan_ble builds from a pair
BleDevice(adv, vendor) ==
    ScannedDevice(adv.address, PyOr(adv.name, adv.local_name), adv.rssi, vendor,
                  adv.service_uuids, "ble", None)

\* one iteration of the loop over the discovered pairs: the device is
\* appended, or the iteration raises, before or after its vendor lookup
ProcessBleDevice(raises) ==
    /\ ble_pc = "process"
    /\ discovered # <<>>
    /\ IF raises = "before_vendor"
       THEN /\ refresh = "idle"
            /\ UNCHANGED <<vendorVars, lookups, discovered, devices, refresh>>
            /\ BleFails("exception", devices)
       ELSE /\ refresh # "running"
            /\ ~RefreshNeeded
            /\ refresh' = "idle"
            /\ \E env \in VendorEnvsNow(Head(discovered).address) :
               \E adv \in {Head(discovered)} :
               \E v \in {GetVendor(adv.address, VendorState, has_mac_lookup, env)} :
                  /\ ResolvedVendor(v, VendorCalls(adv.address, VendorState,
                                                   has_mac_lookup, env))
                  /\ IF raises = "no"
                     THEN /\ devices' = Append(devices, BleDevice(adv, v.vendor))
                          /\ discovered' = Tail(discovered)
                          /\ UNCHANGED <<bleResultVars, ble_pc>>
                     ELSE /\ BleFails("exception", devices)
                          /\ UNCHANGED <<discovered, devices>>
    /\ UNCHANGED <<runVars, scanVars, discovery, discovery_task, elapsed,
                   classicVars, recoveryVars, cycles, reports, refreshes,
                   left_running, loopVars>>

\* the loop has ended: the counter is reset and `devices` returned
BleSucceeds ==
    /\ ble_pc = "process"
    /\ discovered = <<>>
    /\ consecutive_ble_failures' = CounterAfterSuccess(consecutive_ble_failures)
    /\ ble_outcome' = "ok"
    /\ fail_streak' = 0
    /\ ble_pc' = "done"
    /\ ble_devices' = devices
    /\ UNCHANGED <<vendorVars, runVars, scanVars, bleVars, classicVars,
                   recoveryVars, cycles, reports, lookups, refreshVars,
                   left_running, loopVars>>

(***************************************************************************)
(* scan_classic.                                                           *)
(***************************************************************************)
\* a scan() that runs the two transports together (asyncio.gather)
ClassicStartsWithBle == ble_pc # "none"

\* scan() calls scan_classic after `await self.scan_ble(duration)` has
\* returned
ClassicMayStart == ble_pc = "done"

\* scan_classic returns `devs`
ClassicReturns(how, devs) ==
    /\ classic_pc' = "done"
    /\ classic_outcome' = how
    /\ classic_devices' = devs

\* scan_classic is called and starts hcitool inq, which can fail when the
\* tool is missing (FileNotFoundError) or for another reason
ScanClassic(spawn) ==
    /\ scan_pc = "running"
    /\ classic_pc = "none"
    /\ ClassicMayStart
    /\ IF spawn = "started"
       THEN /\ classic_pc' = "inquiry"
            /\ UNCHANGED <<classic_outcome, classic_devices>>
       ELSE ClassicReturns(spawn, cdevices)
    /\ UNCHANGED <<scannerVars, runVars, scanVars, ble_pc, bleVars, lines,
                   cdevices, classic_calls, recoveryVars, ble_outcome,
                   fail_streak, ble_devices, cycles, reports, lookups,
                   refreshVars, left_running, loopVars>>

\* the wait for the inquiry ends: by its timeout, with a non-zero status,
\* or with status 0 and an output that decodes or does not
InquiryEnds(how) ==
    /\ classic_pc = "inquiry"
    /\ IF how = "exit0"
       THEN /\ classic_pc' = "parse"
            /\ \E output \in InquiryOutputs(budget.reports - reports) :
                  /\ lines' = output
                  /\ reports' = reports + Len(output)
            /\ UNCHANGED <<classic_outcome, classic_devices>>
       ELSE /\ ClassicReturns(how, cdevices)
            /\ UNCHANGED <<lines, reports>>
    /\ left_running' = LeftRunning(how, "hcitool inq")
    /\ UNCHANGED <<scannerVars, runVars, scanVars, ble_pc, bleVars, cdevices,
                   classic_calls, recoveryVars, ble_outcome, fail_streak,
                   ble_devices, cycles, lookups, refreshVars, loopVars>>

\* _get_classic_device_name: the stripped output of hcitool name, None when
\* it is empty or the call failed
ClassicDeviceName(out) == IF out # <<>> THEN Some(out) ELSE None

\* a scan_classic that keeps the address as hcitool printed it
ClassicDeviceAsPrinted(line, name, vendor) ==
    ScannedDevice(line.mac, name, CLASSIC_RSSI, vendor, <<>>, "classic",
                  Some(HexValue(line.class)))

\* the ScannedDevice scan_classic builds from a matching line: match.group(1)
\* uppercased, int(match.group(2), 16)
ClassicDevice(line, name, vendor) ==
    ScannedDevice(Upper(line.mac), name, CLASSIC_RSSI, vendor, <<>>, "classic",
                  Some(HexValue(line.class)))

\* the lookups of one iteration: _get_classic_device_name, then _get_vendor
ClassicLookups(mac, name) ==
    <<[call |-> "name", mac |-> mac, out |-> name.out],
      [call |-> "vendor", mac |-> mac, out |-> <<>>]>>

\* an iteration of the loop over the output lines on a line that is blank,
\* starts with "Inquiring" or does not match
SkipLine ==
    /\ classic_pc = "parse"
    /\ lines # <<>>
    /\ SkippedLine(Head(lines)) \/ ~MatchesDevice(Head(lines))
    /\ lines' = Tail(lines)
    /\ UNCHANGED <<scannerVars, runVars, scanVars, ble_pc, bleVars, classic_pc,
                   cdevices, classic_calls, classic_devices, classic_outcome,
                   recoveryVars, ble_outcome, fail_streak, ble_devices, cycles,
                   reports, lookups, refreshVars, left_running, loopVars>>

\* an iteration on a matching line: a device is appended after its name and
\* vendor lookups, or the iteration raises
ParseLine(name, raises) ==
    /\ classic_pc = "parse"
    /\ lines # <<>>
    /\ ~SkippedLine(Head(lines))
    /\ MatchesDevice(Head(lines))
    /\ refresh # "running"
    /\ ~RefreshNeeded
    /\ refresh' = "idle"
    /\ left_running' = LeftRunning(name.how, "hcitool name")
    /\ classic_calls' = classic_calls \o ClassicLookups(Upper(Head(lines).mac), name)
    /\ \E mac \in {Upper(Head(lines).mac)} :
       \E env \in VendorEnvsNow(mac) :
       \E v \in {GetVendor(mac, VendorState, has_mac_lookup, env)} :
             /\ ResolvedVendor(v, VendorCalls(mac, VendorState, has_mac_lookup, env))
             /\ IF raises
                THEN /\ ClassicReturns("exception", cdevices)
                     /\ UNCHANGED <<lines, cdevices>>
                ELSE /\ cdevices' = Append(cdevices,
                            ClassicDevice(Head(lines), ClassicDeviceName(name.out),
                                          v.vendor))
                     /\ lines' = Tail(lines)
                     /\ UNCHANGED <<classic_pc, classic_outcome,
                                    classic_devices>>
    /\ UNCHANGED <<consecutive_ble_failures, runVars, scanVars, ble_pc, bleVars,
                   recoveryVars, ble_outcome, fail_streak, ble_devices, cycles,
                   reports, refreshes, loopVars>>

\* the loop has ended: `devices` is returned
ClassicSucceeds ==
    /\ classic_pc = "parse"
    /\ lines = <<>>
    /\ ClassicReturns("ok", cdevices)
    /\ UNCHANGED <<scannerVars, runVars, scanVars, ble_pc, bleVars, lines,
                   cdevices, classic_calls, recoveryVars, ble_outcome,
                   fail_streak, ble_devices, cycles, reports, lookups,
                   refreshVars, left_running, loopVars>>

(***************************************************************************)
(* scan: the merge and the return.                                         *)
(***************************************************************************)
ScanReturns ==
    /\ scan_pc = "running"
    /\ ble_pc = "done"
    /\ classic_pc = "done"
    /\ result' = Merge(ble_devices, classic_devices)
    /\ scan_pc' = "idle"
    /\ ble_pc' = "none"
    /\ classic_pc' = "none"
    /\ cycles' = cycles + 1
    /\ loop_pc' = IF loop_pc = "scan" THEN "dispatch" ELSE loop_pc
    /\ UNCHANGED <<scannerVars, runVars, duration, bleVars, lines, cdevices,
                   classic_calls, classic_devices, classic_outcome,
                   recoveryVars, ble_outcome, fail_streak, ble_devices, reports,
                   lookups, refreshVars, left_running, delivered, prev_cycle,
                   cancelled_at>>

\* a second passes outside the waits above
TimePasses ==
    /\ last_api_age # Unset
    /\ last_api_age < RATE_LIMIT
    /\ last_api_age' = last_api_age + 1
    /\ UNCHANGED <<consecutive_ble_failures, vendor_cache, mac_lookup,
                   vendors_updated, runVars, scanVars, ble_pc, bleVars,
                   classicVars, recoveryVars, ble_outcome, fail_streak,
                   ble_devices, cycles, reports, lookups, refreshVars,
                   left_running, loopVars>>

\* the steps of scan() that end by themselves or by a timeout of the code
BoundedSteps ==
    \/ \E d \in Durations : Scan(d)
    \/ \E out \in CommandEnds : TryStopDiscovery(out)
    \/ \E out \in CommandEnds : ResetAdapter(out)
    \/ Discover
    \/ Wait
    \/ DiscoverEnds
    \/ DeadlineExpires
    \/ RefreshStarts
    \/ \E raises \in {"no", "before_vendor", "after_vendor"} :
          ProcessBleDevice(raises)
    \/ BleSucceeds
    \/ \E spawn \in {"started", "missing", "spawn_error"} : ScanClassic(spawn)
    \/ \E how \in {"exit0", "exit_nonzero", "timeout", "decode_error"} :
          InquiryEnds(how)
    \/ SkipLine
    \/ \E name \in NameResults, raises \in BOOLEAN : ParseLine(name, raises)
    \/ ClassicSucceeds
    \/ ScanReturns

\* the steps of scan(): the end of the refresh, which runs in a thread that
\* nothing times out, is the one step that only the outside world can take
ScanNext ==
    \/ BoundedSteps
    \/ \E outcome \in RefreshOutcomes : RefreshEnds(outcome)

Next ==
    \/ ScanNext
    \/ TimePasses

Spec == Init /\ [][Next]_vars

\* scan() under a fair event loop and working timers: a coroutine that can go
\* on does, and every wait that has a timeout ends, by itself or by the
\* timeout; a call that has no timeout may never return
ScanFairSpec == Init /\ [][Next]_vars /\ WF_vars(BoundedSteps \/ TimePasses)

(***************************************************************************)
(* scan_continuous: scan, pass every device of the result to the callback, *)
(* sleep, and again; the task that runs it can be cancelled where it       *)
(* awaits.                                                                 *)
(***************************************************************************)
\* the runs of the loop, with the vendor services down: the long one
\* reaches the recovery and finds no device, the short one sights the same
\* devices in two cycles
LoopBudgets ==
    {[cycles |-> MaxCycles, reports |-> 0, lookups |-> 0],
     [cycles |-> LoopCycles, reports |-> LoopReports, lookups |-> 0]}

\* a loop that passes on only the devices the cycle before did not pass on
CallbackArgsUnseen(devs, before) ==
    SelectSeq(devs, LAMBDA d : \A i \in DOMAIN before : before[i].mac # d.mac)

\* for device in devices: callback(device)
CallbackArgs(devs, before) == devs

\* the devices the for loop of the current cycle goes through
ToDeliver == CallbackArgs(result, prev_cycle.delivered)

\* a loop that catches what the callback raised and goes on
InForLoopAfterRaise == loop_pc \in {"dispatch", "raised"}

\* scan_continuous is in its for loop: nothing around callback(device)
\* catches what it raises
InForLoop == loop_pc = "dispatch"

\* callback(device) is called with the next device and returns, or raises:
\* the exception leaves scan_continuous
Callback(raises) ==
    /\ InForLoop
    /\ Len(delivered) < Len(ToDeliver)
    /\ delivered' = Append(delivered, ToDeliver[Len(delivered) + 1])
    /\ loop_pc' = IF raises THEN "raised" ELSE "dispatch"
    /\ UNCHANGED <<scannerVars, runVars, scanVars, ble_pc, bleVars, classicVars,
                   recoveryVars, ble_outcome, fail_streak, ble_devices, cycles,
                   reports, lookups, refreshVars, left_running, prev_cycle,
                   cancelled_at>>

\* the for loop has ended: await asyncio.sleep(interval)
Sleep ==
    /\ InForLoop
    /\ Len(delivered) = Len(ToDeliver)
    /\ loop_pc' = "sleep"
    /\ UNCHANGED <<scannerVars, runVars, scanVars, ble_pc, bleVars, classicVars,
                   recoveryVars, ble_outcome, fail_streak, ble_devices, cycles,
                   reports, lookups, refreshVars, left_running, delivered,
                   prev_cycle, cancelled_at>>

\* the interval has passed: back to the top of `while True`
IntervalEnds ==
    /\ loop_pc = "sleep"
    /\ loop_pc' = "wake"
    /\ last_api_age' = IF INTERVAL >= RATE_LIMIT THEN Aged(last_api_age)
                       ELSE last_api_age
    /\ UNCHANGED <<consecutive_ble_failures, vendor_cache, mac_lookup,
                   vendors_updated, runVars, scanVars, ble_pc, bleVars,
                   classicVars, recoveryVars, ble_outcome, fail_streak,
                   ble_devices, cycles, reports, lookups, refreshVars,
                   left_running, delivered, prev_cycle, cancelled_at>>

\* a loop whose callbacks are awaited, so that it can be cancelled between two
\* of them
CancellableInDispatch == loop_pc \in {"scan", "dispatch", "sleep"}

\* the places where scan_continuous awaits: `await self.scan()` and
\* `await asyncio.sleep(interval)`; the for loop over the devices has none
Cancellable == loop_pc \in {"scan", "sleep"}

\* the subprocess scan() is waiting for
InFlightProcess ==
    IF ble_pc = "stop_discovery" THEN {"bluetoothctl scan off"}
    ELSE IF ble_pc = "reset_adapter" THEN {"hciconfig reset"}
    ELSE IF classic_pc = "inquiry" THEN {"hcitool inq"}
    ELSE {}

\* the task running scan_continuous is cancelled: CancelledError is raised
\* where it awaits and passes every `except Exception` on its way out, and
\* the locals of the calls it leaves are gone
Cancel ==
    /\ Cancellable
    /\ loop_pc' = "cancelled"
    /\ cancelled_at' = loop_pc
    /\ scan_pc' = "idle"
    /\ ble_pc' = "none"
    /\ classic_pc' = "none"
    /\ discovery_task' = IF discovery_task = "running" THEN "cancelled"
                         ELSE discovery_task
    /\ refresh' = "idle"
    /\ left_running' = left_running \cup InFlightProcess
    /\ discovery' = NoDiscovery
    /\ elapsed' = 0
    /\ discovered' = <<>>
    /\ devices' = <<>>
    /\ lines' = <<>>
    /\ cdevices' = <<>>
    /\ recovery_ends' = <<>>
    /\ classic_calls' = <<>>
    /\ UNCHANGED <<scannerVars, runVars, duration, result, classic_devices,
                   classic_outcome, entry_failures, soft_clear, hard_reset,
                   commands, prev_recovery, ble_outcome, fail_streak,
                   ble_devices, cycles, reports, lookups, refreshes, delivered,
                   prev_cycle>>

LoopNext ==
    \/ ScanNext
    \/ \E raises \in BOOLEAN : Callback(raises)
    \/ Sleep
    \/ IntervalEnds
    \/ Cancel

\* scan_continuous has been called on a new scanner
LoopInit ==
    /\ Constructed
    /\ budget \in LoopBudgets
    /\ loop_pc = "start"

LoopSpec == LoopInit /\ [][LoopNext]_vars

\* the steps of the loop other than its cancellation
LoopProgress ==
    \/ ScanNext
    \/ \E raises \in BOOLEAN : Callback(raises)
    \/ Sleep
    \/ IntervalEnds

\* the loop under a fair event loop: a coroutine that can go on does, every
\* timer fires, and every external call ends, by itself or by its timeout
\* (the refresh of the vendor database, which has no timeout, is taken to end)
LoopFairSpec == LoopInit /\ [][LoopNext]_vars /\ WF_vars(LoopProgress)

(***************************************************************************)
(* _get_vendor called for one address after another, as the loops of       *)
(* scan_ble and scan_classic call it, with any address and any outcome of  *)
(* the offline database and of the online service.                         *)
(***************************************************************************)
\* the time an online request takes, up to RATE_LIMIT: a response or a
\* transport error comes at once or later, a timeout after 5 seconds
RequestTimes(http) ==
    IF http.kind = "timeout" THEN {RATE_LIMIT} ELSE {0, RATE_LIMIT}

\* the time since the last online request when the next one is sent, after
\* the throttle slept or not
GapAtRequest(since, slept) ==
    IF since = Unset THEN Unset ELSE IF slept THEN RATE_LIMIT ELSE since

\* await self._get_vendor(mac)
Resolve(mac) ==
    /\ scan_pc = "idle"
    /\ resolves < MaxResolves
    /\ \E randomized \in {IsRandomizedMac(mac)}, st \in {VendorState} :
       \E env \in VendorEnvsFor(mac, st, has_mac_lookup, TRUE) :
          \E v \in {GetVendor(mac, st, has_mac_lookup, env)},
             calls \in {VendorCalls(mac, st, has_mac_lookup, env)},
             online \in {GetVendorOnline(mac, last_api_age, env.http)} :
          LET slept == calls.online /\ online.slept
          IN /\ vendor_cache' = v.cache
             /\ mac_lookup' = v.lookup
             /\ vendors_updated' = v.updated
             /\ last_api_age' = v.age
             /\ resolve_call' =
                   [mac |-> mac, env |-> env, calls |-> calls, vendor |-> v.vendor,
                    randomized |-> randomized, slept |-> slept,
                    gap |-> IF calls.online
                            THEN GapAtRequest(since_request, slept) ELSE Unset,
                    before |-> VendorState,
                    after |-> [cache |-> v.cache, lookup |-> v.lookup,
                               updated |-> v.updated, age |-> v.age]]
             /\ IF calls.online
                THEN /\ \E took \in RequestTimes(env.http) : since_request' = took
                     /\ requests' = CachePut(requests, mac, online.request)
                ELSE UNCHANGED <<since_request, requests>>
             /\ refreshes' = IF calls.refresh THEN refreshes + 1 ELSE refreshes
    /\ resolves' = resolves + 1
    /\ UNCHANGED <<consecutive_ble_failures, has_mac_lookup, budget, tasks,
                   scanVars, ble_pc, bleVars, classicVars, recoveryVars,
                   ble_outcome, fail_streak, ble_devices, cycles, reports,
                   lookups, refresh, left_running, loopVars, parsed>>

\* a second passes between two calls
ResolveTimePasses ==
    /\ \/ last_api_age # Unset /\ last_api_age < RATE_LIMIT
       \/ since_request # Unset /\ since_request < RATE_LIMIT
    /\ last_api_age' = Aged(last_api_age)
    /\ since_request' = Aged(since_request)
    /\ UNCHANGED <<consecutive_ble_failures, vendor_cache, mac_lookup,
                   vendors_updated, has_mac_lookup, budget, resolves,
                   resolve_call, requests, tasks, scanVars, ble_pc, bleVars,
                   classicVars, recoveryVars, ble_outcome, fail_streak,
                   ble_devices, cycles, reports, lookups, refreshVars,
                   left_running, loopVars, parsed>>

VendorNext ==
    \/ \E mac \in VendorAddrs : Resolve(mac)
    \/ ResolveTimePasses

\* the scanner after construction, in a run of _get_vendor calls
VendorInit == Init /\ budget.cycles = 1

VendorSpec == VendorInit /\ [][VendorNext]_vars

(***************************************************************************)
(* _get_vendor_online called by several tasks of one event loop: a task    *)
(* runs until it awaits, the throttle sleep or the response, and the other *)
(* tasks run meanwhile.                                                    *)
(***************************************************************************)
\* addresses the tasks look up
OnlineAddrs == {MacA, MacNoHex}

\* the throttle of _get_vendor_online: the seconds it sleeps before the request
ThrottleSleep(age) ==
    IF age # Unset /\ age < RATE_LIMIT THEN RATE_LIMIT - age ELSE 0

\* task t sends its request: session.get(...) is entered
SendRequest(t, request, slept) ==
    /\ tasks' = [tasks EXCEPT ![t] =
                    [@ EXCEPT !.pc = "awaiting", !.timer = 0,
                              !.request = request, !.slept = slept,
                              !.gap = since_request]]
    /\ since_request' = 0

\* task t calls _get_vendor_online(mac): it sleeps when the last response is
\* less than a second old, and sends its request at once otherwise
OnlineStart(t, mac) ==
    /\ scan_pc = "idle"
    /\ tasks[t].pc = "idle"
    /\ tasks[t].calls < MaxTaskCalls
    /\ IF ThrottleSleep(last_api_age) > 0
       THEN /\ tasks' = [tasks EXCEPT ![t] =
                           [@ EXCEPT !.pc = "sleeping",
                                     !.timer = ThrottleSleep(last_api_age),
                                     !.request = Oui(mac)]]
            /\ UNCHANGED since_request
       ELSE SendRequest(t, Oui(mac), FALSE)
    /\ UNCHANGED <<scannerVars, has_mac_lookup, budget, resolves, resolve_call,
                   requests, scanVars, ble_pc, bleVars, classicVars,
                   recoveryVars, ble_outcome, fail_streak, ble_devices, cycles,
                   reports, lookups, refreshVars, left_running, loopVars,
                   parsed>>

\* the throttle sleep of task t is over: it sends its request
SleepEnds(t) ==
    /\ tasks[t].pc = "sleeping"
    /\ tasks[t].timer = 0
    /\ SendRequest(t, tasks[t].request, TRUE)
    /\ UNCHANGED <<scannerVars, has_mac_lookup, budget, resolves, resolve_call,
                   requests, scanVars, ble_pc, bleVars, classicVars,
                   recoveryVars, ble_outcome, fail_streak, ble_devices, cycles,
                   reports, lookups, refreshVars, left_running, loopVars,
                   parsed>>

\* the request of task t ends, a timeout no sooner than a second after it was
\* sent: a response sets _last_api_call, and the call returns
OnlineEnds(t, http) ==
    /\ tasks[t].pc = "awaiting"
    /\ http.kind = "timeout" => tasks[t].timer >= RATE_LIMIT
    /\ last_api_age' = LastApiCallAge(http, last_api_age)
    /\ tasks' = [tasks EXCEPT ![t] =
                    [@ EXCEPT !.pc = "idle", !.timer = 0, !.calls = @ + 1,
                              !.vendor = OnlineVendor(http)]]
    /\ UNCHANGED <<consecutive_ble_failures, vendor_cache, mac_lookup,
                   vendors_updated, has_mac_lookup, budget, resolves,
                   resolve_call, since_request, requests, scanVars, ble_pc,
                   bleVars, classicVars, recoveryVars, ble_outcome, fail_streak,
                   ble_devices, cycles, reports, lookups, refreshVars,
                   left_running, loopVars, parsed>>

\* the timer of a task a second later: the rest of its sleep, or the time
\* since its request
TimerAfterSecond(task) ==
    IF task.pc = "sleeping" THEN (IF task.timer > 0 THEN task.timer - 1 ELSE 0)
    ELSE IF task.pc = "awaiting" THEN RATE_LIMIT
    ELSE task.timer

\* a second passes; a task whose sleep is over has sent its request by then
TaskTimePasses ==
    /\ \A t \in Tasks : ~(tasks[t].pc = "sleeping" /\ tasks[t].timer = 0)
    /\ \/ last_api_age # Unset /\ last_api_age < RATE_LIMIT
       \/ since_request # Unset /\ since_request < RATE_LIMIT
       \/ \E t \in Tasks : TimerAfterSecond(tasks[t]) # tasks[t].timer
    /\ last_api_age' = Aged(last_api_age)
    /\ since_request' = Aged(since_request)
    /\ tasks' = [t \in Tasks |-> [tasks[t] EXCEPT !.timer = TimerAfterSecond(tasks[t])]]
    /\ UNCHANGED <<consecutive_ble_failures, vendor_cache, mac_lookup,
                   vendors_updated, has_mac_lookup, budget, resolves,
                   resolve_call, requests, scanVars, ble_pc, bleVars,
                   classicVars, recoveryVars, ble_outcome, fail_streak,
                   ble_devices, cycles, reports, lookups, refreshVars,
                   left_running, loopVars, parsed>>

ThrottleNext ==
    \/ \E t \in Tasks, mac \in OnlineAddrs : OnlineStart(t, mac)
    \/ \E t \in Tasks : SleepEnds(t)
    \/ \E t \in Tasks, http \in HttpOutcomes : OnlineEnds(t, http)
    \/ TaskTimePasses

ThrottleSpec == VendorInit /\ [][ThrottleNext]_vars

(***************************************************************************)
(* parse_device_class called on any of the class values.                   *)
(***************************************************************************)
ParseDeviceClass(device_class) ==
    /\ \E r \in {parse_device_class(device_class)} :
          parsed' = [called |-> TRUE, arg |-> device_class, major |-> r.major,
                     minor |-> r.minor]
    /\ UNCHANGED <<scannerVars, has_mac_lookup, budget, resolveVars, scanVars,
                   ble_pc, bleVars, classicVars, recoveryVars, ble_outcome,
                   fail_streak, ble_devices, cycles, reports, lookups,
                   refreshVars, left_running, loopVars>>

\* one call in a run
ClassNext ==
    /\ ~parsed.called
    /\ \E device_class \in DeviceClasses : ParseDeviceClass(device_class)

ClassSpec == VendorInit /\ [][ClassNext]_vars

(***************************************************************************)
(* Properties.                                                             *)
(***************************************************************************)
\* scan() has returned `result`
ScanReturned == scan_pc = "idle" /\ cycles > 0

\* scan_ble is in flight: its recovery, the wait for the discovery or its loop
BleInFlight == ble_pc \notin {"none", "done"}

\* scan_classic is in flight: the inquiry or the loop over its output
ClassicInFlight == classic_pc \notin {"none", "done"}

BleFailed == ble_outcome \in {"exception", "timeout"}

ClassicFailed == classic_outcome \notin {"none", "ok"}

IsBle(dev) == dev.bt_type = "ble"

IsClassic(dev) == dev.bt_type = "classic"

\* the normalized addresses scan_ble returned in this cycle
BleAddresses == {Upper(ble_devices[i].mac) : i \in DOMAIN ble_devices}

UnseenByBle(dev) == Upper(dev.mac) \notin BleAddresses

InResult(dev) == \E j \in DOMAIN result : result[j] = dev

\* C1: within one scan() the classic inquiry is never in flight while
\* scan_ble is (its recovery commands, the discovery call, the deadline wait):
\* when scan_classic starts, scan_ble has ended by success, exception or
\* deadline expiry
C1_ClassicAfterBle ==
    classic_pc # "none" =>
        /\ ~BleInFlight
        /\ ble_outcome \in {"ok", "exception", "timeout"}
        /\ discovery_task \in {"returned", "raised", "cancelled"}
        /\ soft_clear # "running"
        /\ hard_reset # "running"

\* the inquiry runs after a BLE scan that ended by deadline expiry
C1_Witness ==
    /\ classic_pc = "inquiry"
    /\ ble_outcome = "timeout"
    /\ discovery_task = "cancelled"

\* C2: scan() returns a list whatever the two outcomes; a transport that
\* failed contributes no device, and the result is empty when neither
\* transport discovered a device
C2_FailedTransportContributesNothing ==
    ScanReturned =>
        /\ BleFailed => \A j \in DOMAIN result : ~IsBle(result[j])
        /\ ClassicFailed => \A j \in DOMAIN result : ~IsClassic(result[j])
        /\ (ble_devices = <<>> /\ classic_devices = <<>>) => result = <<>>

\* C3: the transports fail independently: scan_classic is run whatever
\* scan_ble ended in, the BLE devices of the result are those scan_ble
\* returned whatever scan_classic ended in, and when scan_ble returned
\* nothing the result is what scan_classic returned
C3_TransportsIndependent ==
    ScanReturned =>
        /\ classic_outcome # "none"
        /\ SelectSeq(result, IsBle) = ble_devices
        /\ ble_devices = <<>> => result = classic_devices

\* the classic inquiry timed out and the BLE devices are the result
C3_Witness ==
    /\ ScanReturned
    /\ classic_outcome = "timeout"
    /\ ble_outcome = "ok"
    /\ ble_devices # <<>>
    /\ result = ble_devices

\* C4: the result holds every BLE device, and a classic device if and only
\* if its uppercased address is not the uppercased address of a BLE device of
\* the cycle; an entry with the address of a BLE device is a BLE record
C4_MergeMembership ==
    ScanReturned =>
        /\ \A i \in DOMAIN ble_devices : InResult(ble_devices[i])
        /\ \A i \in DOMAIN classic_devices :
              InResult(classic_devices[i]) <=> UnseenByBle(classic_devices[i])
        /\ \A j \in DOMAIN result :
              Upper(result[j].mac) \in BleAddresses => IsBle(result[j])

\* BLE reported an address in lower case, the inquiry the same address (in
\* upper case) and another one
C4_Witness ==
    /\ ScanReturned
    /\ \E i \in DOMAIN ble_devices, k \in DOMAIN classic_devices :
          /\ ble_devices[i].mac # classic_devices[k].mac
          /\ Upper(ble_devices[i].mac) = classic_devices[k].mac
    /\ \E k \in DOMAIN classic_devices : InResult(classic_devices[k])

\* C5: the result is the BLE devices in the order scan_ble returned them,
\* then the classic devices that are no duplicates in the order scan_classic
\* returned them; no classic device precedes a BLE device
C5_MergeOrder ==
    ScanReturned =>
        /\ SubSeq(result, 1, Len(ble_devices)) = ble_devices
        /\ SubSeq(result, Len(ble_devices) + 1, Len(result))
              = SelectSeq(classic_devices, UnseenByBle)
        /\ \A i, j \in DOMAIN result :
              (i < j /\ IsClassic(result[i])) => IsClassic(result[j])

\* a BLE device followed by two classic devices
C5_Witness ==
    /\ ScanReturned
    /\ Len(result) = 3
    /\ IsBle(result[1])
    /\ IsClassic(result[2])
    /\ IsClassic(result[3])
    /\ result[2].mac # result[3].mac

\* C6: no two entries of the result have the same uppercased address
C6_ResultDeduplicated ==
    ScanReturned =>
        \A i, j \in DOMAIN result :
            i # j => Upper(result[i].mac) # Upper(result[j].mac)

\* C7: a scan_ble that failed, by an exception of the discovery call or of
\* the loop over the discovered devices or by deadline expiry, has incremented
\* the counter by one and returned an empty list
C7_BleFailureReturnsNothing ==
    (ble_pc = "done" /\ BleFailed) =>
        /\ consecutive_ble_failures = entry_failures + 1
        /\ ble_devices = <<>>

\* C8: a scan_ble that succeeded has set the counter to zero, whatever it
\* was and however many devices were found
C8_SuccessResetsCounter ==
    ble_outcome = "ok" => consecutive_ble_failures = 0

\* a success with no device after failures
C8_Witness ==
    /\ ble_outcome = "ok"
    /\ entry_failures >= 1
    /\ ble_devices = <<>>
    /\ consecutive_ble_failures = 0

\* C9: when the discovery call has not completed duration + 10 seconds after
\* its start, scan_ble ends as a failure: the counter is incremented by one and
\* nothing is returned, whether the call would have returned devices or raised
C9_DeadlineIsFailure ==
    (ble_pc = "done" /\ (~discovery.completes \/ discovery.at > duration + 10)) =>
        /\ ble_outcome = "timeout"
        /\ consecutive_ble_failures = entry_failures + 1
        /\ ble_devices = <<>>

\* a discovery that would have returned devices a second after the deadline
C9_Witness ==
    /\ ble_pc = "done"
    /\ discovery.completes
    /\ ~discovery.raises
    /\ discovery.at = duration + 11
    /\ discovery.found # <<>>
    /\ ble_outcome = "timeout"

\* C10: a soft clear is issued in a scan_ble call exactly when the counter is
\* at least 3 at entry, that is after three or more consecutive failures and
\* never after fewer, and it has ended when the discovery call starts
C10_SoftClearAtThreshold ==
    scan_pc = "running" =>
        /\ soft_clear # "none" <=> entry_failures >= 3
        /\ discovery_task # "none" => soft_clear # "running"
        /\ BleInFlight =>
              /\ fail_streak < 3 => soft_clear = "none"
              /\ fail_streak >= 3 => soft_clear # "none"

\* the scan after exactly three consecutive failures has issued the soft
\* clear and started the discovery
C10_Witness ==
    /\ cycles = 3
    /\ fail_streak = 3
    /\ entry_failures = 3
    /\ soft_clear \in {"ok", "failed"}
    /\ discovery_task = "running"

\* C11: recovery stops at the first successful stage: a scan_ble call starts
\* at most one soft clear and at most one hard reset, the hard reset only after
\* the soft clear of the same call failed, and none when the soft clear
\* succeeded
C11_RecoveryStopsAtFirstSuccess ==
    /\ Len(commands) <= 2
    /\ \A i, j \in DOMAIN commands : i # j => commands[i] # commands[j]
    /\ (\E i \in DOMAIN commands : commands[i] = "reset") =>
          /\ commands = <<"scan_off", "reset">>
          /\ soft_clear = "failed"
    /\ soft_clear = "ok" => (hard_reset = "none" /\ commands = <<"scan_off">>)
    /\ hard_reset # "none" => soft_clear = "failed"

\* a scan_ble call whose soft clear succeeded has ended without a hard reset
C11_Witness ==
    /\ ble_pc = "done"
    /\ soft_clear = "ok"
    /\ hard_reset = "none"
    /\ commands = <<"scan_off">>

\* C12: no recovery action changes the failure counter: after _recover_ble
\* the counter has its value at entry, whether the soft clear succeeded, the
\* hard reset succeeded or the hard reset failed; as long as scan_ble calls have
\* failed since the last success the counter is not zero
C12_RecoveryKeepsCounter ==
    /\ (BleInFlight /\ soft_clear # "none") =>
          consecutive_ble_failures = entry_failures
    /\ fail_streak > 0 => consecutive_ble_failures > 0

\* _recover_ble has returned after a failed hard reset, the counter at 3
C12_Witness ==
    /\ ble_pc = "discover"
    /\ hard_reset = "failed"
    /\ entry_failures = 3
    /\ consecutive_ble_failures = 3

\* C13: while the counter stays at 3 or more, every scan_ble call attempts
\* recovery again, whether the recovery of the call before succeeded or failed;
\* after a failed hard reset the next call whose soft clear fails resets again
C13_RecoveryRetried ==
    (BleInFlight /\ fail_streak >= 3 /\ prev_recovery # "none") =>
        /\ soft_clear # "none"
        /\ commands # <<>>
        /\ (prev_recovery = "reset_failed" /\ soft_clear = "failed") =>
              hard_reset # "none"

\* the hard reset failed in the call before and is tried again
C13_Witness ==
    /\ BleInFlight
    /\ prev_recovery = "reset_failed"
    /\ fail_streak = 4
    /\ hard_reset = "running"
    /\ commands = <<"scan_off", "reset">>

\* a step that changes the failure counter
CounterChanges == consecutive_ble_failures' # consecutive_ble_failures

\* the step is the end of a scan_ble call, which has set the counter to 0 after
\* a success and has added 1 to it after a failure
CounterMovedByScanBle ==
    /\ BleInFlight
    /\ ble_pc' = "done"
    /\ classic_pc = "none"
    /\ IF ble_outcome' = "ok"
       THEN consecutive_ble_failures' = 0
       ELSE /\ ble_outcome' \in {"exception", "timeout"}
            /\ consecutive_ble_failures' = consecutive_ble_failures + 1

\* C34: only the end of a scan_ble call changes the failure counter, by +1
\* when the call failed and to 0 when it succeeded; no step of scan_classic
\* (inquiry, name and vendor lookups, its failures) and no merge changes it or
\* starts a recovery command; the counter is always the number of scan_ble
\* calls that failed since the last one that succeeded
C34_CounterMovedOnlyByScanBle ==
    /\ [](consecutive_ble_failures = fail_streak)
    /\ [][CounterChanges => CounterMovedByScanBle]_vars
    /\ [][(classic_pc # "none" /\ scan_pc = "running") =>
             (~CounterChanges /\ UNCHANGED <<soft_clear, hard_reset, commands>>)]_vars

\* the classic inquiry has timed out after the second BLE failure in a row:
\* the counter is 2 and no recovery was started
C34_Witness ==
    /\ classic_pc = "done"
    /\ classic_outcome = "timeout"
    /\ ble_outcome = "exception"
    /\ consecutive_ble_failures = 2
    /\ fail_streak = 2
    /\ commands = <<>>

\* a recovery command of the current scan_ble call ends in this step
RecoveryStepEnds ==
    ble_pc \in {"stop_discovery", "reset_adapter"} /\ ble_pc' # ble_pc

\* C35: recovery does not replace the scan: after the last recovery command
\* of a scan_ble call, whatever it returned, the call goes on to the
\* discovery; a call that has ended after a recovery has issued the discovery,
\* and it has reset the counter exactly when the discovery returned in time
\* and its devices were processed, and incremented it otherwise
C35_DiscoveryFollowsRecovery ==
    /\ [][RecoveryStepEnds => ble_pc' \in {"reset_adapter", "discover"}]_vars
    /\ [][(RecoveryStepEnds /\ ble_pc = "reset_adapter") => ble_pc' = "discover"]_vars
    /\ []((ble_pc = "done" /\ soft_clear # "none") =>
            /\ soft_clear # "running" /\ hard_reset # "running"
            /\ discovery_task \in {"returned", "raised", "cancelled"}
            /\ ble_outcome = "timeout" <=> discovery_task = "cancelled"
            /\ discovery_task = "raised" => ble_outcome = "exception"
            /\ ble_outcome = "ok" => discovery_task = "returned"
            /\ consecutive_ble_failures =
                  IF ble_outcome = "ok" THEN 0 ELSE entry_failures + 1)

\* after a failed hard reset the discovery has returned a device and the
\* counter is back at zero
C35_Witness ==
    /\ ble_pc = "done"
    /\ soft_clear = "failed"
    /\ hard_reset = "failed"
    /\ discovery_task = "returned"
    /\ ble_outcome = "ok"
    /\ ble_devices # <<>>
    /\ entry_failures = 3
    /\ consecutive_ble_failures = 0

\* C36: the soft clear has succeeded exactly when bluetoothctl exited within
\* its timeout, with whatever status, and the hard reset exactly when
\* hciconfig exited with status 0; the hard reset is started only after a
\* bluetoothctl that was missing, could not be started or timed out
C36_RecoveryOutcomes ==
    recovery_ends # <<>> =>
        /\ ble_pc \in {"reset_adapter", "discover"}
        /\ soft_clear = "ok" <=> recovery_ends[1] \in {"exit0", "exit_nonzero"}
        /\ soft_clear = "failed" <=>
              recovery_ends[1] \in {"missing", "spawn_error", "timeout"}
        /\ hard_reset # "none" <=>
              recovery_ends[1] \in {"missing", "spawn_error", "timeout"}
        /\ Len(recovery_ends) = 2 =>
              /\ hard_reset = "ok" <=> recovery_ends[2] = "exit0"
              /\ hard_reset = "failed" <=> recovery_ends[2] # "exit0"

\* bluetoothctl has exited with a non-zero status: the soft clear counts as
\* successful and no reset is started
C36_Witness ==
    /\ ble_pc = "discover"
    /\ recovery_ends = <<"exit_nonzero">>
    /\ soft_clear = "ok"
    /\ hard_reset = "none"
    /\ commands = <<"scan_off">>

(***************************************************************************)
(* Properties of the vendor resolution (VendorSpec).                       *)
(***************************************************************************)
HexChars ==
    {"0","1","2","3","4","5","6","7","8","9",
     "a","b","c","d","e","f","A","B","C","D","E","F"}

\* six groups of two hexadecimal digits separated by colons
IsColonHex(mac) ==
    /\ Len(mac) = 17
    /\ \A i \in 1..17 : IF i % 3 = 0 THEN mac[i] = ":" ELSE mac[i] \in HexChars

\* the 8-4-4-4-12 form
IsUuidForm(mac) ==
    /\ Len(mac) = 36
    /\ \A i \in {9, 14, 19, 24} : mac[i] = "-"

\* bit 0x02 of the first octet, read off its second digit
LocallyAdministered(mac) ==
    mac[2] \in {"2","3","6","7","a","b","e","f","A","B","E","F"}

\* the address is UUID-form or privacy-randomized
Flagged(mac) == IsUuidForm(mac) \/ (IsColonHex(mac) /\ LocallyAdministered(mac))

\* the first field of the address is no hexadecimal number
FirstOctetUnparsable(mac) ==
    Len(mac) < 2 \/ mac[1] \notin HexChars \/ mac[2] \notin HexChars

\* a _get_vendor call has been made; resolve_call is the last one
Resolved == resolves > 0

\* C23: the refresh of the offline database is off the scanning path: no
\* scan() call is suspended in _get_vendor until the refresh has ended
C23_ScanNotStalledByRefresh == ~(scan_pc = "running" /\ refresh = "running")

\* C27: no subprocess is left running by the scanner: once the wait on
\* bluetoothctl, hciconfig, hcitool inq or hcitool name has ended, by its
\* timeout or by cancellation, that process is no longer running
C27_NoSubprocessLeftRunning == left_running = {}

\* C29: every wait of a scan cycle has a timeout, so a scan() call returns
\* in the end even if an external call never completes by itself
C29_ScanReturns == (scan_pc = "running") ~> (scan_pc = "idle")

\* C30: a scan_classic call that failed (missing tool, spawn error, inquiry
\* timeout, non-zero exit, undecodable output or an exception in its loop)
\* has returned the empty list
C30_ClassicFailureYieldsNothing == ClassicFailed => classic_devices = <<>>

\* the device scan_classic builds from `line` after the name lookup `call`
IsDeviceOfLine(dev, line, call) ==
    /\ dev.bt_type = "classic"
    /\ dev.rssi = -60
    /\ dev.service_uuids = <<>>
    /\ dev.mac = Upper(line.mac)
    /\ line.mac = MacALower => dev.mac = MacA
    /\ line.class = <<"2","4","0","4","0","4">> => dev.device_class = Some(2360324)
    /\ line.class = <<"5","a","0","2","0","c">> => dev.device_class = Some(5898764)
    /\ dev.name = IF call.out # <<>> THEN Some(call.out) ELSE None

\* an iteration of the loop of scan_classic that goes on to the next line
ClassicIteration ==
    /\ classic_pc = "parse"
    /\ classic_pc' = "parse"
    /\ lines # <<>>
    /\ lines' = Tail(lines)

\* C31: scan_classic takes the lines of the inquiry output in order; a line
\* that matches the device pattern appends exactly one device, built from
\* that line after one name lookup and then one vendor lookup for its
\* uppercased address, and any other line appends nothing and makes no
\* lookup; a device whose name lookup printed nothing or was given up on has
\* no name; every device scan_classic has returned is classic, has rssi -60,
\* no service UUIDs and no empty name
C31_OneDevicePerMatchingLine ==
    /\ [][ClassicIteration =>
            IF MatchesDevice(Head(lines)) /\ ~SkippedLine(Head(lines))
            THEN /\ Len(cdevices') = Len(cdevices) + 1
                 /\ SubSeq(cdevices', 1, Len(cdevices)) = cdevices
                 /\ Len(classic_calls') = Len(classic_calls) + 2
                 /\ SubSeq(classic_calls', 1, Len(classic_calls)) = classic_calls
                 /\ \E n \in {classic_calls'[Len(classic_calls) + 1]},
                       v \in {classic_calls'[Len(classic_calls) + 2]} :
                       /\ n.call = "name"
                       /\ v.call = "vendor"
                       /\ n.mac = Upper(Head(lines).mac)
                       /\ v.mac = n.mac
                       /\ IsDeviceOfLine(cdevices'[Len(cdevices')], Head(lines), n)
            ELSE /\ cdevices' = cdevices
                 /\ classic_calls' = classic_calls]_vars
    /\ [][(ClassicIteration /\ left_running' # left_running) =>
             cdevices'[Len(cdevices')].name = None]_vars
    /\ [](\A i \in DOMAIN classic_devices :
             /\ classic_devices[i].bt_type = "classic"
             /\ classic_devices[i].rssi = -60
             /\ classic_devices[i].service_uuids = <<>>
             /\ classic_devices[i].mac = Upper(classic_devices[i].mac)
             /\ classic_devices[i].name # Some(<<>>))

\* scan_classic has returned two devices of a three-line output, the first
\* without a name, after four lookups
C31_Witness ==
    /\ classic_pc = "done"
    /\ classic_outcome = "ok"
    /\ ble_devices = <<>>
    /\ reports = 3
    /\ Len(classic_devices) = 2
    /\ classic_devices[1].mac = MacA
    /\ classic_devices[1].name = None
    /\ classic_devices[2].name = Some(<<"n">>)
    /\ Len(classic_calls) = 4

\* C14: _get_vendor of a UUID-form or privacy-randomized address returns None
\* at once: it makes no database access and no online request, does not sleep,
\* and leaves the cache, the lookup object, the refresh flag and the
\* rate-limiter timestamp as they were, whatever the cache holds
C14_FlaggedAddressSkipped ==
    (Resolved /\ Flagged(resolve_call.mac)) =>
        /\ resolve_call.vendor = None
        /\ resolve_call.calls = NoCalls
        /\ ~resolve_call.slept
        /\ resolve_call.after = resolve_call.before
        /\ resolve_call.mac \notin DOMAIN requests

\* a randomized address resolved with a vendor in the cache and a timestamp
\* just set
C14_Witness ==
    /\ Resolved
    /\ resolve_call.mac = MacRandomLower
    /\ resolve_call.before.cache # << >>
    /\ resolve_call.before.age = 0
    /\ resolve_call.vendor = None

\* C15: _is_randomized_mac(a) is true if and only if a is colon-hex form and
\* bit 0x02 of its first octet is set; it is false for a UUID-form address and
\* for an address whose first octet is no hexadecimal number
C15_RandomizedIffLocallyAdministered ==
    Resolved =>
        /\ resolve_call.randomized <=>
              (IsColonHex(resolve_call.mac) /\ LocallyAdministered(resolve_call.mac))
        /\ IsUuidForm(resolve_call.mac) => ~resolve_call.randomized
        /\ FirstOctetUnparsable(resolve_call.mac) => ~resolve_call.randomized

\* a lower-case address with the bit set has tested true
C15_Witness ==
    /\ Resolved
    /\ resolve_call.mac = MacRandomLower
    /\ resolve_call.randomized

\* C16: lookup order cache, offline database, online service: a cached vendor
\* is returned with no database access and no online request, a vendor the
\* database found with no online request, and an online request is sent only
\* after the database missed, failed or was unavailable
C16_LookupOrder ==
    Resolved =>
        LET c == resolve_call
            cached == c.mac \in DOMAIN c.before.cache
        IN /\ cached => (c.vendor = c.before.cache[c.mac] /\ c.calls = NoCalls)
           /\ (c.calls.lookup /\ c.env.db = "hit") =>
                 (c.vendor = Some(KnownVendor) /\ ~c.calls.online)
           /\ (c.calls.lookup \/ c.calls.online) => ~cached
           /\ c.calls.online =>
                 \/ ~has_mac_lookup
                 \/ ~c.calls.lookup
                 \/ c.env.db = "miss"

\* the second call finds its vendor in the database the first call opened
C16_Witness ==
    /\ resolves = 2
    /\ resolve_call.calls.lookup
    /\ ~resolve_call.calls.create
    /\ resolve_call.env.db = "hit"
    /\ ~resolve_call.calls.online
    /\ resolve_call.vendor = Some(KnownVendor)

\* C17: the cache holds only non-empty vendors: a lookup that failed or found
\* nothing leaves the cache as it was, and an address that is not in the cache
\* is looked up again by the next call
C17_OnlyVendorsCached ==
    /\ \A m \in DOMAIN vendor_cache : Truthy(vendor_cache[m])
    /\ Resolved =>
          LET c == resolve_call
          IN /\ ~Truthy(c.vendor) => c.after.cache = c.before.cache
             /\ (~Flagged(c.mac) /\ c.mac \notin DOMAIN c.before.cache) =>
                   (c.calls.lookup \/ c.calls.online)

\* the online service answered the first request without a vendor, and the
\* second call asks it again for the same address
C17_Witness ==
    /\ resolves = 2
    /\ resolve_call.calls.online
    /\ resolve_call.before.age # Unset
    /\ resolve_call.before.cache = << >>
    /\ DOMAIN requests = {resolve_call.mac}

\* the addresses a and b differ and have the same OUI or differ in letter case
\* only
Akin(a, b) ==
    /\ a # b
    /\ SubSeq(a, 1, 8) = SubSeq(b, 1, 8) \/ Upper(a) = Upper(b)

\* C38: the cache is keyed by the address string as given and its entries
\* are stable: no step changes or removes an entry; a call for a cached
\* string returns the cached vendor and leaves the cache as it is; a call for
\* another string, even of the same OUI or the same address in another letter
\* case, is looked up in the database or online again
C38_CacheKeyedByAddress ==
    /\ [][\A m \in DOMAIN vendor_cache :
             m \in DOMAIN vendor_cache' /\ vendor_cache'[m] = vendor_cache[m]]_vars
    /\ [](Resolved =>
            \E c \in {resolve_call} :
               /\ c.mac \in DOMAIN c.before.cache =>
                     /\ c.vendor = c.before.cache[c.mac]
                     /\ c.calls = NoCalls
                     /\ c.after.cache = c.before.cache
               /\ \A m \in DOMAIN c.before.cache :
                     (Akin(m, c.mac) /\ c.mac \notin DOMAIN c.before.cache) =>
                        /\ c.calls.lookup \/ c.calls.online
                        /\ c.after.cache[m] = c.before.cache[m])

\* with the vendor of AC:DE:48:00:00:01 cached, the call for AC:DE:48:00:00:09
\* asks the online service and caches what it answered
C38_Witness ==
    /\ resolves = 2
    /\ resolve_call.mac = MacA2
    /\ DOMAIN resolve_call.before.cache = {MacA}
    /\ resolve_call.calls.online
    /\ DOMAIN resolve_call.after.cache = {MacA, MacA2}
    /\ resolve_call.after.cache[MacA] = resolve_call.before.cache[MacA]

C18_RequestsOneSecondApart ==
    (Resolved /\ resolve_call.calls.online) =>
        (resolve_call.gap = Unset \/ resolve_call.gap >= RATE_LIMIT)

\* C20: the online request for an address is its first 8 characters and never
\* the whole address, so that addresses with the same first three octets get
\* the same request
C20_RequestCarriesOnlyOui ==
    /\ \A a \in DOMAIN requests :
          /\ requests[a] = SubSeq(a, 1, 8)
          /\ Len(requests[a]) < Len(a)
    /\ \A a, b \in DOMAIN requests :
          SubSeq(a, 1, 8) = SubSeq(b, 1, 8) => requests[a] = requests[b]

\* two addresses of one OUI have been requested
C20_Witness ==
    /\ MacA \in DOMAIN requests
    /\ MacA2 \in DOMAIN requests
    /\ requests[MacA] = requests[MacA2]

\* C21: the online lookup turns every outcome of its request into a value:
\* a 200 response gives its body trimmed, or None when nothing is left of the
\* body (never an empty string); every other status, a timeout and a transport
\* error give None
C21_OnlineOutcomeMapped ==
    (Resolved /\ resolve_call.calls.online) =>
        LET http == resolve_call.env.http
            text == IF http.kind = "response" /\ http.status = 200
                    THEN Strip(http.body) ELSE << >>
        IN /\ resolve_call.vendor # Some(<< >>)
           /\ resolve_call.vendor = (IF text # << >> THEN Some(text) ELSE None)

\* C22: over any run of _get_vendor calls the refresh of the offline database
\* is started at most once: a refresh that failed sets _vendors_updated like
\* one that worked, and a call that has to create the AsyncMacLookup again,
\* because creating it failed before, does not start the refresh again
C22_RefreshStartedAtMostOnce ==
    /\ refreshes <= 1
    /\ Resolved =>
          LET c == resolve_call
          IN /\ c.calls.refresh => (~c.before.updated /\ c.after.updated)
             /\ c.before.updated => ~c.calls.refresh

\* the second call creates the AsyncMacLookup again, after the first call
\* refreshed the database and failed to create it
C22_Witness ==
    /\ resolves = 2
    /\ refreshes = 1
    /\ resolve_call.calls.create
    /\ ~resolve_call.calls.refresh
    /\ ~resolve_call.before.lookup

(***************************************************************************)
(* Properties of scan_continuous (LoopSpec).                               *)
(***************************************************************************)
\* C24: in every cycle the callback is called once for each device of the
\* merged result, in the order of the result and before the sleep, and a
\* device that earlier cycles delivered is delivered again
C24_EveryDeviceDelivered ==
    /\ loop_pc = "scan" => delivered = <<>>
    /\ loop_pc \in {"dispatch", "raised"} =>
          /\ Len(delivered) <= Len(result)
          /\ delivered = SubSeq(result, 1, Len(delivered))
    /\ loop_pc \in {"sleep", "wake"} => delivered = result

\* the second cycle has delivered a device the first cycle delivered, and
\* sleeps
C24_Witness ==
    /\ loop_pc = "sleep"
    /\ cycles = 2
    /\ Len(delivered) = 1
    /\ Len(prev_cycle.delivered) = 1
    /\ delivered[1].mac = prev_cycle.delivered[1].mac

\* C25: the cycles do not overlap: scan() runs only where the loop awaits it,
\* and the scan of a cycle after the first starts only after the merge of
\* the cycle before is complete, every callback of that cycle has returned and
\* its sleep has ended
C25_CyclesDoNotOverlap ==
    /\ scan_pc = "running" => loop_pc = "scan"
    /\ (loop_pc = "scan" /\ cycles > 0) =>
          /\ prev_cycle.slept
          /\ prev_cycle.delivered = prev_cycle.merged

\* the second scan runs after the first cycle delivered two devices and slept
C25_Witness ==
    /\ loop_pc = "scan"
    /\ scan_pc = "running"
    /\ cycles = 1
    /\ Len(prev_cycle.merged) = 2
    /\ prev_cycle.slept

\* C37: an exception of the callback leaves scan_continuous: the devices of
\* the cycle after the one the callback raised on are not delivered, no
\* scan runs, and the loop takes no further step, so no further cycle starts
C37_CallbackExceptionEndsLoop ==
    loop_pc = "raised" =>
        /\ scan_pc = "idle"
        /\ delivered # <<>>
        /\ delivered = SubSeq(result, 1, Len(delivered))
        /\ ~ENABLED LoopNext

\* the callback raised on the first of two devices
C37_Witness ==
    /\ loop_pc = "raised"
    /\ Len(result) = 2
    /\ delivered = <<result[1]>>
    /\ cycles < budget.cycles

\* the loop has ended: it was cancelled, or a callback raised
LoopEnded == loop_pc \in {"cancelled", "raised"}

\* scan() has failed in the cycle at hand: scan_ble or scan_classic failed, or
\* the recovery did, or a vendor lookup found the services down
CycleFailed ==
    \/ ble_outcome \in {"timeout", "exception"}
    \/ classic_outcome \notin {"none", "ok"}
    \/ hard_reset = "failed"
    \/ \E i \in DOMAIN result : result[i].vendor = None

C28_NoPartialDelivery ==
    loop_pc = "cancelled" =>
        /\ delivered = <<>> \/ delivered = result
        /\ cancelled_at = "scan" => delivered = <<>>
        /\ cancelled_at = "sleep" => delivered = result
        /\ prev_cycle.delivered = prev_cycle.merged

\* the loop is cancelled during the scan of a cycle, after a cycle that has
\* delivered two devices
C28_Witness ==
    /\ loop_pc = "cancelled"
    /\ cancelled_at = "scan"
    /\ Len(prev_cycle.merged) = 2
    /\ prev_cycle.delivered = prev_cycle.merged
    /\ delivered = <<>>

(***************************************************************************)
(* Properties of parse_device_class (ClassSpec).                           *)
(***************************************************************************)
\* bit k of a class value
Bit(c, k) == (c \div 2^k) % 2

\* the number held by the bits lo..hi of a class value
RECURSIVE Field(_, _, _)
Field(c, lo, hi) == IF hi < lo THEN 0 ELSE Bit(c, lo) + 2 * Field(c, lo + 1, hi)

\* the tables of the categories, by number
MajorName(n) ==
    CASE n = 1 -> "computer" [] n = 2 -> "phone" [] n = 3 -> "network"
      [] n = 4 -> "audio" [] n = 5 -> "peripheral" [] n = 6 -> "imaging"
      [] n = 7 -> "wearable" [] n = 8 -> "toy" [] n = 9 -> "health"
      [] OTHER -> "unknown"

AudioName(n) ==
    CASE n = 1 -> Some("headset") [] n = 2 -> Some("handsfree")
      [] n = 4 -> Some("microphone") [] n = 5 -> Some("speaker")
      [] n = 6 -> Some("headphones") [] n = 7 -> Some("portable_audio")
      [] n = 8 -> Some("car_audio") [] OTHER -> None

PhoneName(n) ==
    CASE n = 1 -> Some("cellular") [] n = 2 -> Some("cordless")
      [] n = 3 -> Some("smartphone") [] OTHER -> None

\* parse_device_class was called with the class value c
ParsedClass(c) == parsed.called /\ parsed.arg = Some(c)

\* C32: parse_device_class of a class value gives as major the table entry
\* of its bits 8-12 ("unknown" outside 1..9), and as minor the audio or
\* phone table entry of its bits 2-7 when the major is audio (4) or phone
\* (2), and None otherwise or when the table has no such entry; 0x200404 is
\* audio, headset
C32_ClassDecoded ==
    /\ (parsed.called /\ parsed.arg # None) =>
          \E c \in {parsed.arg[1]} :
             /\ parsed.major = MajorName(Field(c, 8, 12))
             /\ parsed.minor =
                   IF Field(c, 8, 12) = 4 THEN AudioName(Field(c, 2, 7))
                   ELSE IF Field(c, 8, 12) = 2 THEN PhoneName(Field(c, 2, 7))
                   ELSE None
    /\ ParsedClass(2098180) =>
          parsed.major = "audio" /\ parsed.minor = Some("headset")

\* a smartphone class with every service bit set has been parsed
C32_Witness ==
    /\ parsed.called
    /\ parsed.arg = Some(2047 * 8192 + 2 * 256 + 3 * 4)
    /\ parsed.major = "phone"
    /\ parsed.minor = Some("smartphone")

\* C33 as stated: 0x240404 decodes to major audio, minor speaker
C33_DecodesToSpeaker ==
    ParsedClass(2360324) =>
        parsed.major = "audio" /\ parsed.minor = Some("speaker")

\* C33, amended: 0x240404 decodes to major audio, minor headset (its bits
\* 2-7 hold 1)
C33_DecodesToHeadset ==
    ParsedClass(2360324) =>
        parsed.major = "audio" /\ parsed.minor = Some("headset")

\* 0x240404 has been parsed
C33_Witness == ParsedClass(2360324) /\ parsed.major = "audio"

(***************************************************************************)
(* Properties of the throttle under interleaved tasks (ThrottleSpec).      *)
(***************************************************************************)
\* C19: the throttle is global across the tasks of one scanner: no online
\* request is sent less than one second after the online request before it,
\* whichever task sent that one
C19_RequestsSerialized ==
    \A t \in Tasks :
        tasks[t].pc = "awaiting" =>
            (tasks[t].gap = Unset \/ tasks[t].gap >= RATE_LIMIT)

=============================================================================
